---- MODULE Spec2Model ----
(***************************************************************************)
(* Model of the artifact workflows of bigscan:                             *)
(*   QKViewHandler.create_and_download_qkview  (modules/qkview_handler.py) *)
(*   UCSHandler.create_and_download_ucs        (modules/ucs_handler.py)    *)
(* The device is the environment: every response of a remote call is a    *)
(* nondeterministic choice.  Time is the elapsed time since start_time of *)
(* the poller, in seconds, advanced by the code's own time.sleep calls.   *)
(***************************************************************************)
EXTENDS Integers, Sequences, FiniteSets, TLC

\* ---------------------------------------------------------------- bounds
\* largest snapshot deadline explored, in poll intervals
QkMaxIntervals == 5
\* largest backup deadline explored, in poll intervals
UcsMaxIntervals == 20

\* largest file served to a chunked transfer, in chunks
MaxChunks == 3
\* most 206 responses the device gives to one transfer
Max206 == 1
\* most calls made on one auth handler
MaxAuthCalls == 8
\* most devices in the file of a batch
MaxDevices == 2
\* files with the artifact's extension on the device
MaxFiles == 2

\* ------------------------------------------------------ program constants
check_interval == 15
QkFailureLimit == 3
UcsFailureLimit == 10
UcsFailureRestart == 5
stable_threshold == 3
FileWaitChecks == 10
FileWaitSleep == 5
QK_CLEANUP_MIN == 5 * 1024 * 1024
UCS_CLEANUP_MIN == 1 * 1024 * 1024
UCS_EXISTS_MIN == 10 * 1024 * 1024
chunk_size == 512 * 1024
SizeTolerance == 1024
QkSniffBelow == 1024 * 1024
UcsSniffBelow == 1 * 1024 * 1024
PerformSniffBelow == 5 * 1024 * 1024

\* ------------------------------------------------------------ input sets
Kinds == {"qkview", "ucs"}

Timeouts(k) ==
  IF k = "qkview"
    THEN {40, 45, check_interval * QkMaxIntervals}
    ELSE {45, check_interval * UcsMaxIntervals}

\* byte counts a download can report, around the kind's cleanup threshold
Sizes(k) ==
  IF k = "qkview"
    THEN {0, QK_CLEANUP_MIN - 1, QK_CLEANUP_MIN, QK_CLEANUP_MIN + 1}
    ELSE {0, UCS_CLEANUP_MIN - 1, UCS_CLEANUP_MIN, UCS_CLEANUP_MIN + 1}

\* results (success, file_size) of one download attempt
DlOutcomes(k) == {<<s, n>> : s \in BOOLEAN, n \in Sizes(k)}

\* sizes a stat of the remote backup file can report (0: absent or unparsable)
RemoteSizes == {0, UCS_EXISTS_MIN, UCS_EXISTS_MIN + 1}

\* what one status GET of the snapshot task can yield
\* (ERROR: a requests.exceptions.RequestException, raised by the GET or by
\* raise_for_status; BAD_BODY: any other exception, e.g. of response.json(),
\* which reaches the outer handler)
QkResponses == {"SUCCEEDED", "FAILED", "IN_PROGRESS", "UNKNOWN", "ERROR", "BAD_BODY"}
\* what one status GET of the backup task can yield (RUNNING stands for
\* STARTED / VALIDATING / RUNNING)
UcsResponses == {"COMPLETED", "FAILED", "RUNNING", "UNKNOWN", "ERROR", "BAD_BODY"}

\* bodies a response to a creation POST or to the validate PUT can carry:
\* JSON with a task id, JSON without one, the validate acknowledgement,
\* something that is not JSON, and error texts in several spellings
Responses ==
  [status : {200, 202, 400, 500},
   text : {"{id}", "{}", "{message}", "<html>", "Invalid filename", "NAME too long",
           "INVALID request", "Server Error"}]
\* the request raised instead of returning a response
Raised == [status |-> 0, text |-> "raised"]
\* the request was not sent
Unsent == [status |-> 0, text |-> "unsent"]

\* sizes of the remote file, as declared by the device: below, at and above
\* the chunk boundaries and the sniff thresholds
Totals ==
  {1, 2, 1000, 4096} \cup {chunk_size - 1}
    \cup {n * chunk_size + d : n \in 1..MaxChunks, d \in {0, 1}}
    \cup {PerformSniffBelow + 4096}
\* bytes a response body can fall short of the requested range
Shortfalls == {0, SizeTolerance, 2 * SizeTolerance}
\* responses to one chunk request ("200_bad_range": a 200 whose
\* Content-Range has no parsable total)
ChunkResponses == {"200", "200_bad_range", "206", "400", "500", "raise"}

NullInfo == [state |-> "null", name |-> FALSE, uri |-> FALSE]

VARIABLES
  kind,                 \* which handler runs
  no_delete,            \* self.no_delete
  timeout,              \* self.qkview_timeout / self.ucs_timeout
  pc,                   \* position in the workflow
  ret,                  \* return value of create_and_download_*: "none", "True", "False"
  info,                 \* qkview_info / ucs_info held by the workflow
  now,                  \* time.time() - start_time
  elapsed,              \* elapsed, as computed at the top of the iteration
  check_count,          \* check_count
  consecutive_failures, \* consecutive_failures (backup poller)
  fw_i,                 \* i of _wait_for_file_completion
  last_size,            \* last_size of _wait_for_file_completion
  stable_count,         \* stable_count of _wait_for_file_completion
  pollResult,           \* value returned by the poller
  pollEnd,              \* why the poller returned
  actual_path,          \* actual_path of _download_qkview: "unset", "none", "found"
  ft_moved,             \* move-then-fetch got past its move step
  st_success,           \* success of the strategy's _perform_download
  st_size,              \* file_size of the strategy's _perform_download
  ft_failed_fetch,      \* move-then-fetch: the fetch after a move failed
  download_result,      \* download_result of the workflow
  downloaded_file_size, \* downloaded_file_size of the workflow
  downloaded,           \* the download step has returned
  statusGets,           \* status GETs issued for the task
  downloadReqs,         \* download attempts started
  mvCmds,               \* move-to-staging commands issued
  mvBackCmds,           \* move-back (restore) commands issued
  cpCmds,               \* copy-to-staging commands issued
  stagedRmCmds,         \* rm -f of the staged copy issued
  ftStagedRm,           \* rm -f of the staged copy issued by move-then-fetch
  rmOrigCmds,           \* remove commands issued on the artifact (unix-rm, rm -f, rm -rf)
  forceRmCmds,          \* forced rm -rf ...; sync issued
  taskDeletes,          \* DELETE requests issued on the task record
  terminalSeen,         \* terminal state a status GET returned: "none", "SUCCEEDED", "FAILED"
  getsAfterTerminal,    \* status GETs issued after a terminal state was returned
  hist,                 \* poller run: shape of the responses so far: "ip", "ip_succ", "other"
  ipCount,              \* poller run: in-progress responses received
  lastGet,              \* poller run: outcome of the latest status GET: "none", "ok", "err", "bad"
  failRun,              \* poller run: length of the current run of failed status GETs
  response,             \* response of the first creation POST
  retry_response,       \* retry_response of the creation POST with the simplified name
  validate_response,    \* response of the PUT of _validate_ucs_task
  task_result,          \* what _create_*_task returned: "none" or "task"
  createPosts,          \* creation POSTs issued
  validateSeen,         \* outcome of the validate PUT: "unsent", "202", "other", "raised"
  fileCleanup,          \* how the remote-file cleanup went: "none", "ok", "http_error", "raise"
  taskCleanup,          \* how the task-record DELETE went: "none", "ok", "http_error", "raise"
  verifyCmds,           \* existence re-checks issued by _cleanup_ucs_file
  bc_copied,            \* copy-then-fetch got past its copy step
  tried,                \* results of the download strategies _download_qkview has called, in order
  fn,                   \* transfer: the function that runs
  remote_total,         \* transfer: size of the remote file
  head,                 \* transfer: the first bytes the device serves
  t_pc,                 \* transfer: "off", "request", "done"
  start,                \* start of _download_chunked_f5_method
  end,                  \* end
  size,                 \* size (last byte position; 0: not known yet)
  current_bytes,        \* current_bytes
  written,              \* f.tell(): bytes written to the local file
  reqs,                 \* the ranges requested so far, in order
  faithful,             \* every response so far was a 200 carrying exactly the requested range
  n206,                 \* 206 responses received
  last_status,          \* the latest response
  prev_start,           \* start when the latest request was sent
  prev_written,         \* bytes written when the latest request was sent
  total_size,           \* the size learned from the device (0: none)
  final_size,           \* final_size: size of the saved file
  verified,             \* the final checks of the function ran
  t_success,            \* success returned by the function: "none", "True", "False"
  t_size,               \* file_size returned by the function
  token,                \* BigIPAuthHandler.token: "None", "" or a token
  auth_header,          \* session.headers['X-F5-Auth-Token']: "absent" or a token
  a_call,               \* the latest call on the auth handler: "none", "get_auth_token", "logout"
  a_ret,                \* how it ended: "none", "True", "False", "returned"
  a_sent,               \* the requests it sent, in order
  a_calls,              \* calls made on the auth handler
  e_pc,                 \* position in extract_all_info ("off": no extraction runs)
  create_qkview,        \* self.create_qkview
  device_info,          \* self.device_info
  obtained,             \* fields for which a query of this extraction obtained a value
  e_trace,              \* the steps extract_all_info has run, in order
  e_reqs,               \* the requests issued on the device session, in order
  qkview_success,       \* qkview_success: "none", "True", "False"
  e_ret,                \* return value of extract_all_info: "none", "True", "False"
  b_pc,                 \* process_devices_from_file: "off", "start", "extracting", "TypeError"
  devices,              \* number of devices read from the file
  b_i,                  \* i of the device loop (0: the loop has not started)
  devices_info          \* devices_info: the devices whose record was appended, in order

cfgVars  == <<kind, no_delete, timeout>>
pollLocals == <<now, elapsed, check_count, consecutive_failures>>
fwVars   == <<fw_i, last_size, stable_count>>
pollOut  == <<pollResult, pollEnd>>
pollHist == <<statusGets, terminalSeen, getsAfterTerminal, hist, ipCount, lastGet, failRun>>
taskHist == <<statusGets, terminalSeen, getsAfterTerminal>>
stratVars == <<actual_path, ft_moved, st_success, st_size, ft_failed_fetch>>
dlOut    == <<download_result, downloaded_file_size, downloaded>>
stageCmds == <<downloadReqs, mvCmds, mvBackCmds, cpCmds, stagedRmCmds, ftStagedRm>>
cleanCmds == <<rmOrigCmds, forceRmCmds, taskDeletes, fileCleanup, taskCleanup, verifyCmds>>
createVars == <<response, retry_response, validate_response, task_result, createPosts, validateSeen>>

VARIABLES
  source_there,         \* the artifact is at source_path on the device
  staged_there          \* a copy is in /var/config/rest/downloads on the device
remoteVars == <<source_there, staged_there>>

wfVars == <<remoteVars, cfgVars, createVars, bc_copied, tried, pc, ret, info, pollLocals, fwVars, pollOut, pollHist,
            stratVars, dlOut, stageCmds, cleanCmds>>
chunkLocals == <<start, end, size, current_bytes, written>>
chunkHist == <<reqs, faithful, n206, last_status, prev_start, prev_written>>
transferOut == <<total_size, final_size, verified, t_success, t_size>>
transferVars == <<fn, remote_total, head, t_pc, chunkLocals, chunkHist, transferOut>>

authVars == <<token, auth_header, a_call, a_ret, a_sent, a_calls>>
stepVars == <<e_pc, create_qkview, device_info, obtained, e_trace, e_reqs, qkview_success, e_ret>>
batchVars == <<b_pc, devices, b_i, devices_info>>
extractVars == <<authVars, stepVars, batchVars>>

VARIABLES
  l_kind,               \* which handler's locator runs
  l_remote,             \* the device's files with the extension, most recent first
  l_answered,           \* every probe of this call was answered with status 200
  l_pc,                 \* position: "off", "probe", "done", "end"
  l_i,                  \* index of the next probe
  l_call,               \* number of the locator call
  l_cmds,               \* commands sent to the bash endpoint
  l_result,             \* value returned by the locator
  l_first,              \* <<value returned, l_answered>> of the previous call
  l_read,               \* file_path the download read
  l_saved,              \* what a successful download saved under the task's filename
  l_removed             \* ucs_path removed by the cleanup
locVars == <<l_kind, l_remote, l_answered, l_pc, l_i, l_call, l_cmds, l_result, l_first,
             l_read, l_saved, l_removed>>

vars == <<wfVars, transferVars, extractVars, locVars>>

\* the locals of a transfer before its first request
TransferStart ==
  /\ start = 0 /\ end = chunk_size - 1 /\ size = 0 /\ current_bytes = 0 /\ written = 0
  /\ reqs = <<>> /\ faithful = TRUE /\ n206 = 0
  /\ last_status = "none" /\ prev_start = 0 /\ prev_written = 0
  /\ total_size = 0 /\ final_size = 0 /\ verified = FALSE
  /\ t_success = "none" /\ t_size = 0

\* the keys of device_info the extraction writes
Fields == {"hostname", "platform", "serial_number", "registration_key",
           "active_version", "available_versions",
           "installed_hotfixes", "emergency_hotfixes",
           "system_time", "total_memory", "memory_used", "tmm_memory",
           "cpu_count", "ha_status", "management_ip",
           "support_status", "qkview_downloaded", "extraction_timestamp"}

\* a new auth handler on a new session
AuthStart ==
  /\ token = "None" /\ auth_header = "absent"
  /\ a_call = "none" /\ a_ret = "none" /\ a_sent = <<>> /\ a_calls = 0

\* a new extractor: device_info = {}
ExtractorStart ==
  /\ device_info = [f \in Fields |-> "unset"] /\ obtained = {}
  /\ e_trace = <<>> /\ e_reqs = <<>> /\ qkview_success = "none" /\ e_ret = "none"

\* no extraction and no batch runs
ExtractOff ==
  /\ AuthStart
  /\ e_pc = "off" /\ create_qkview = FALSE /\ ExtractorStart
  /\ b_pc = "off" /\ devices = 0 /\ b_i = 0 /\ devices_info = <<>>

\* the unset value of a path and the None a locator returns
NoPath(why) == [dir |-> "", name |-> why]

\* no file locator runs
LocateOff ==
  /\ l_kind = "qkview" /\ l_remote = <<>> /\ l_answered = TRUE
  /\ l_pc = "off" /\ l_i = 0 /\ l_call = 0 /\ l_cmds = <<>>
  /\ l_result = NoPath("unset") /\ l_first = <<NoPath("unset"), TRUE>>
  /\ l_read = NoPath("unset") /\ l_saved = NoPath("unset") /\ l_removed = NoPath("unset")

\* the workflow before its first step
WorkflowStart ==
  /\ ret = "none"
  /\ info = NullInfo
  /\ now = 0 /\ elapsed = 0 /\ check_count = 0 /\ consecutive_failures = 0
  /\ fw_i = 0 /\ last_size = 0 /\ stable_count = 0
  /\ pollResult = NullInfo /\ pollEnd = "none"
  /\ actual_path = "unset" /\ ft_moved = FALSE
  /\ st_success = FALSE /\ st_size = 0 /\ ft_failed_fetch = FALSE
  /\ download_result = FALSE /\ downloaded_file_size = 0 /\ downloaded = FALSE
  /\ statusGets = 0 /\ downloadReqs = 0 /\ mvCmds = 0 /\ mvBackCmds = 0
  /\ cpCmds = 0 /\ stagedRmCmds = 0 /\ ftStagedRm = 0
  /\ rmOrigCmds = 0 /\ forceRmCmds = 0 /\ taskDeletes = 0
  /\ fileCleanup = "none" /\ taskCleanup = "none" /\ verifyCmds = 0
  /\ terminalSeen = "none" /\ getsAfterTerminal = 0
  /\ hist = "ip" /\ ipCount = 0 /\ lastGet = "none" /\ failRun = 0
  /\ response = Unsent /\ retry_response = Unsent /\ validate_response = Unsent
  /\ task_result = "none" /\ createPosts = 0 /\ validateSeen = "unsent"
  /\ tried = <<>> /\ bc_copied = FALSE
  /\ source_there = FALSE /\ staged_there = FALSE

\* A run of a workflow; no transfer function is followed step by step.
Init ==
  /\ kind \in Kinds
  /\ no_delete \in BOOLEAN
  /\ timeout \in Timeouts(kind)
  /\ pc = "create"
  /\ WorkflowStart
  /\ fn = "none" /\ remote_total = 0 /\ head = "gzip" /\ t_pc = "off"
  /\ TransferStart
  /\ ExtractOff
  /\ LocateOff

\* ------------------------------------------------------------ submission
\* str.lower() on the bodies.
Lower(text) ==
  CASE text = "Invalid filename" -> "invalid filename"
    [] text = "NAME too long" -> "name too long"
    [] text = "INVALID request" -> "invalid request"
    [] text = "Server Error" -> "server error"
    [] OTHER -> text

\* `word in text`, case-sensitive, for the two words the code looks for.
Contains(word, text) ==
  word \in (CASE text = "invalid filename" -> {"invalid", "name"}
              [] text = "Invalid filename" -> {"name"}
              [] text = "name too long" -> {"name"}
              [] text = "invalid request" -> {"invalid"}
              [] OTHER -> {})

\* response.json().get('id') / .get('_taskId') is truthy.
HasTaskId(text) == text = "{id}"

\* `status_code in [200, 202]`
Accepted(r) == r.status \in {200, 202}

\* NameRejected without lowering the body first.
NameRejected_CaseSensitive(r) ==
  Contains("invalid", r.text) \/ Contains("name", r.text)

\* `'invalid' in response.text.lower() or 'name' in response.text.lower()`
NameRejected(r) ==
  Contains("invalid", Lower(r.text)) \/ Contains("name", Lower(r.text))

\* The second POST, with the simplified filename, is sent: the first one
\* returned (an exception returns None at once), was not accepted, and its
\* body names the filename.
RetrySent(r1) == r1 # Raised /\ ~Accepted(r1) /\ NameRejected(r1)

\* A task id was obtained.  An unparsable accepted body yields {} for the
\* first response and raises into the outer handler for the retry; either
\* way there is no id.
IdFrom(r1, r2) ==
  IF r1 = Raised THEN FALSE
  ELSE IF Accepted(r1) THEN HasTaskId(r1.text)
  ELSE IF RetrySent(r1) THEN r2 # Raised /\ Accepted(r2) /\ HasTaskId(r2.text)
  ELSE FALSE

\* _validate_ucs_task accepting whatever status the PUT returns.
ValidateOk_AnyStatus(v) == v # Raised

\* _validate_ucs_task: True exactly on status 202, whatever the body.
ValidateOk(v) == v # Raised /\ v.status = 202

\* _create_qkview_task, whole: up to two POSTs, returning a task id or None.
QkCreateTask ==
  /\ pc = "create" /\ kind = "qkview"
  /\ \E r1 \in Responses \cup {Raised} :
     \E r2 \in (IF RetrySent(r1) THEN Responses \cup {Raised} ELSE {Unsent}) :
       /\ response' = r1 /\ retry_response' = r2
       /\ createPosts' = IF RetrySent(r1) THEN 2 ELSE 1
       /\ task_result' = IF IdFrom(r1, r2) THEN "task" ELSE "none"
  /\ pc' = "created"
  /\ UNCHANGED <<remoteVars, locVars, extractVars, transferVars, bc_copied, cfgVars, tried, validate_response, validateSeen, ret, info, pollLocals,
                 fwVars, pollOut, pollHist, stratVars, dlOut, stageCmds, cleanCmds>>

\* Step 1 of create_and_download_qkview: `if not task_id: return False`.
QkAfterCreate ==
  /\ pc = "created" /\ kind = "qkview"
  /\ IF task_result = "none"
       THEN pc' = "done" /\ ret' = "False"
       ELSE pc' = "poll" /\ ret' = ret
  /\ response' = Unsent /\ retry_response' = Unsent
  /\ UNCHANGED <<remoteVars, locVars, extractVars, transferVars, bc_copied, cfgVars, tried, validate_response, task_result, createPosts, validateSeen,
                 info, pollLocals, fwVars, pollOut, pollHist,
                 stratVars, dlOut, stageCmds, cleanCmds>>

\* _create_ucs_task, whole: up to two POSTs, then the validate PUT for the
\* task id obtained, returning (task_id, ucs_filename) or None.
UcsCreateTask ==
  /\ pc = "create" /\ kind = "ucs"
  /\ \E r1 \in Responses \cup {Raised} :
     \E r2 \in (IF RetrySent(r1) THEN Responses \cup {Raised} ELSE {Unsent}) :
     \E v \in (IF IdFrom(r1, r2) THEN Responses \cup {Raised} ELSE {Unsent}) :
       /\ response' = r1 /\ retry_response' = r2 /\ validate_response' = v
       /\ createPosts' = IF RetrySent(r1) THEN 2 ELSE 1
       /\ validateSeen' = IF v = Unsent THEN "unsent"
                          ELSE IF v = Raised THEN "raised"
                          ELSE IF v.status = 202 THEN "202" ELSE "other"
       /\ task_result' = IF IdFrom(r1, r2) /\ ValidateOk(v) THEN "task" ELSE "none"
  /\ pc' = "created"
  /\ UNCHANGED <<remoteVars, locVars, extractVars, transferVars, bc_copied, cfgVars, tried, ret, info, pollLocals, fwVars, pollOut, pollHist,
                 stratVars, dlOut, stageCmds, cleanCmds>>

\* Step 1 of create_and_download_ucs: `if not task_result: return False`.
UcsAfterCreate ==
  /\ pc = "created" /\ kind = "ucs"
  /\ IF task_result = "none"
       THEN pc' = "done" /\ ret' = "False"
       ELSE pc' = "poll" /\ ret' = ret
  /\ response' = Unsent /\ retry_response' = Unsent /\ validate_response' = Unsent
  /\ UNCHANGED <<remoteVars, locVars, extractVars, transferVars, bc_copied, cfgVars, tried, task_result, createPosts, validateSeen,
                 info, pollLocals, fwVars, pollOut, pollHist,
                 stratVars, dlOut, stageCmds, cleanCmds>>

\* --------------------------------------------------- history bookkeeping
\* The record of one status GET and its outcome.
NoteGet(resp, terminals) ==
  /\ statusGets' = statusGets + 1
  /\ getsAfterTerminal' =
       IF terminalSeen # "none" THEN getsAfterTerminal + 1 ELSE getsAfterTerminal
  /\ terminalSeen' =
       IF resp \in terminals THEN (IF resp = "FAILED" THEN "FAILED" ELSE "SUCCEEDED")
       ELSE terminalSeen
  /\ lastGet' = IF resp = "ERROR" THEN "err" ELSE IF resp = "BAD_BODY" THEN "bad" ELSE "ok"
  /\ failRun' = IF resp = "ERROR" THEN failRun + 1 ELSE 0
  /\ ipCount' = IF resp \in {"IN_PROGRESS", "RUNNING"} THEN ipCount + 1 ELSE ipCount
  /\ hist' = IF hist = "ip" /\ resp \in {"IN_PROGRESS", "RUNNING"} THEN "ip"
             ELSE IF hist = "ip" /\ resp \in {"SUCCEEDED", "COMPLETED"} THEN "ip_succ"
             ELSE "other"

\* --------------------------------------------------------- snapshot poller
\* QkPollOutcome with every status other than FAILED / IN_PROGRESS taken as
\* completion.
QkPollOutcome_AnyStatusCompletes(resp, cc) ==
  CASE resp = "FAILED"      -> "return_none"
    [] resp = "IN_PROGRESS" -> "sleep"
    [] resp = "ERROR"       -> IF cc >= QkFailureLimit THEN "abort" ELSE "sleep"
    [] resp = "BAD_BODY"    -> "raise"
    [] OTHER                -> "return_result"

\* QkPollOutcome with FAILED handled like an unknown status: sleep, poll again.
QkPollOutcome_FailedKeepsPolling(resp, cc) ==
  CASE resp = "SUCCEEDED"   -> "return_result"
    [] resp = "ERROR"       -> IF cc >= QkFailureLimit THEN "abort" ELSE "sleep"
    [] resp = "BAD_BODY"    -> "raise"
    [] OTHER                -> "sleep"

\* What one iteration of the loop of _wait_for_qkview_completion does with
\* the outcome of its status GET; cc is check_count after its increment.
QkPollOutcome(resp, cc) ==
  CASE resp = "SUCCEEDED"   -> "return_result"
    [] resp = "FAILED"      -> "return_none"
    [] resp = "IN_PROGRESS" -> "sleep"
    [] resp = "ERROR"       -> IF cc >= QkFailureLimit THEN "abort" ELSE "sleep"
    [] resp = "BAD_BODY"    -> "raise"
    [] OTHER                -> "sleep"

\* One iteration of `while (time.time() - start_time) < self.qkview_timeout`.
QkPollCheck ==
  /\ pc = "poll" /\ kind = "qkview"
  /\ now < timeout
  /\ check_count' = check_count + 1
  /\ elapsed' = now
  /\ \E resp \in QkResponses, hasName \in BOOLEAN, hasUri \in BOOLEAN :
       /\ (resp # "SUCCEEDED") => (hasName /\ hasUri)
       /\ NoteGet(resp, {"SUCCEEDED", "FAILED"})
       /\ LET o == QkPollOutcome(resp, check_count + 1) IN
          CASE o = "return_result" ->
                 /\ pollResult' = [state |-> resp, name |-> hasName, uri |-> hasUri]
                 /\ pollEnd' = "SUCCEEDED"
                 /\ pc' = "polled" /\ now' = now
            [] o = "return_none" ->
                 /\ pollResult' = NullInfo /\ pollEnd' = "FAILED"
                 /\ pc' = "polled" /\ now' = now
            [] o = "abort" ->
                 /\ pollResult' = NullInfo /\ pollEnd' = "ABORT"
                 /\ pc' = "polled" /\ now' = now
            [] o = "raise" ->
                 /\ pollResult' = NullInfo /\ pollEnd' = "EXC_BODY"
                 /\ pc' = "polled" /\ now' = now
            [] OTHER ->
                 /\ now' = now + check_interval
                 /\ pc' = pc /\ UNCHANGED pollOut
  /\ UNCHANGED <<remoteVars, locVars, extractVars, transferVars, bc_copied, cfgVars, createVars, tried, ret, info, consecutive_failures, fwVars,
                 stratVars, dlOut, stageCmds, cleanCmds>>

\* The loop condition is false: TIMEOUT, return None.
QkPollTimeout ==
  /\ pc = "poll" /\ kind = "qkview"
  /\ ~(now < timeout)
  /\ pollResult' = NullInfo /\ pollEnd' = "TIMEOUT"
  /\ pc' = "polled"
  /\ UNCHANGED <<remoteVars, locVars, extractVars, transferVars, bc_copied, cfgVars, createVars, tried, ret, info, pollLocals, fwVars, pollHist,
                 stratVars, dlOut, stageCmds, cleanCmds>>

\* Step 2 of create_and_download_qkview: `if not qkview_info: return False`.
\* The poller's frame is gone: its locals are dead.
QkAfterWait ==
  /\ pc = "polled" /\ kind = "qkview"
  /\ info' = pollResult
  /\ IF pollResult.state = "null"
       THEN pc' = "done" /\ ret' = "False"
       ELSE pc' = "download" /\ ret' = ret
  /\ now' = 0 /\ elapsed' = 0 /\ check_count' = 0 /\ consecutive_failures' = 0
  /\ hist' = "ip" /\ ipCount' = 0 /\ lastGet' = "none" /\ failRun' = 0
  /\ UNCHANGED <<remoteVars, locVars, extractVars, transferVars, bc_copied, cfgVars, createVars, tried, fwVars, pollOut, taskHist,
                 stratVars, dlOut, stageCmds, cleanCmds>>

\* ----------------------------------------------------------- backup poller
\* UcsFailuresAfterSuccess without the reset.
UcsFailuresAfterSuccess_NoReset(cf) == cf

\* consecutive_failures after a status GET that returned a payload.
UcsFailuresAfterSuccess(cf) == 0

\* consecutive_failures after a status GET that raised.
UcsFailuresAfterError(cf) == cf + 1

\* What one iteration of the loop of _wait_for_ucs_completion does with the
\* outcome of its status GET; cf is consecutive_failures after its update.
UcsPollOutcome(resp, cf) ==
  CASE resp = "COMPLETED" -> "return_result"
    [] resp = "FAILED"    -> "return_none"
    [] resp = "RUNNING"   -> "sleep"
    [] resp = "ERROR"     -> IF cf >= UcsFailureLimit THEN "many_failures" ELSE "sleep"
    [] resp = "BAD_BODY"  -> "raise"
    [] OTHER              -> "sleep"

\* The poller returns r because of why.
UcsReturn(r, why) ==
  /\ pollResult' = r /\ pollEnd' = why /\ pc' = "polled"

\* UcsContinueOrAbort going on to the next status check without its sleep.
UcsContinueOrAbort_NoSleep(t, e, cf) ==
  IF 2 * e < timeout
    THEN /\ consecutive_failures' = UcsFailureRestart
         /\ now' = t
         /\ pc' = "poll" /\ UNCHANGED pollOut
    ELSE /\ UcsReturn(NullInfo, "ABORT")
         /\ now' = t
         /\ consecutive_failures' = cf

\* The end of the `consecutive_failures >= 10` block, when no complete file
\* was found: wait on if less than half of the deadline is used, else abort.
\* t is the time at which it is reached, e the iteration's elapsed, cf the
\* value of consecutive_failures.
UcsContinueOrAbort(t, e, cf) ==
  IF 2 * e < timeout
    THEN /\ consecutive_failures' = UcsFailureRestart
         /\ now' = t + check_interval
         /\ pc' = "poll" /\ UNCHANGED pollOut
    ELSE /\ UcsReturn(NullInfo, "ABORT")
         /\ now' = t
         /\ consecutive_failures' = cf

FakeCompleted == [state |-> "COMPLETED", name |-> TRUE, uri |-> FALSE]

\* One iteration of `while (time.time() - start_time) < self.ucs_timeout`,
\* up to the call of _wait_for_file_completion.
UcsPollCheck ==
  /\ pc = "poll" /\ kind = "ucs"
  /\ now < timeout
  /\ check_count' = check_count + 1
  /\ elapsed' = now
  /\ \E resp \in UcsResponses :
       /\ NoteGet(resp, {"COMPLETED", "FAILED"})
       /\ LET cf == IF resp = "ERROR"
                      THEN UcsFailuresAfterError(consecutive_failures)
                      ELSE IF resp = "BAD_BODY"
                      THEN consecutive_failures
                      ELSE UcsFailuresAfterSuccess(consecutive_failures)
              o == UcsPollOutcome(resp, cf)
          IN
          CASE o = "return_result" ->
                 /\ UcsReturn([state |-> resp, name |-> TRUE, uri |-> FALSE], "COMPLETED")
                 /\ consecutive_failures' = cf /\ now' = now
                 /\ UNCHANGED fwVars
            [] o = "return_none" ->
                 /\ UcsReturn(NullInfo, "FAILED")
                 /\ consecutive_failures' = cf /\ now' = now
                 /\ UNCHANGED fwVars
            [] o = "raise" ->
                 /\ UcsReturn(NullInfo, "EXC_BODY")
                 /\ consecutive_failures' = cf /\ now' = now
                 /\ UNCHANGED fwVars
            [] o = "many_failures" ->
                 \* _check_ucs_file_exists: (True, size), (False, 0), or None,
                 \* whose unpacking raises into the outer handler
                 \E chk \in {"exists", "absent", "raise"} :
                   CASE chk = "exists" ->
                          /\ pc' = "filewait"
                          /\ fw_i' = 0 /\ last_size' = 0 /\ stable_count' = 0
                          /\ consecutive_failures' = cf /\ now' = now
                          /\ UNCHANGED pollOut
                     [] chk = "absent" ->
                          /\ UcsContinueOrAbort(now, now, cf)
                          /\ UNCHANGED fwVars
                     [] OTHER ->
                          /\ UcsReturn(NullInfo, "EXC")
                          /\ consecutive_failures' = cf /\ now' = now
                          /\ UNCHANGED fwVars
            [] OTHER ->
                 /\ consecutive_failures' = cf
                 /\ now' = now + check_interval
                 /\ pc' = pc /\ UNCHANGED <<pollOut, fwVars>>
  /\ UNCHANGED <<remoteVars, locVars, extractVars, transferVars, bc_copied, cfgVars, createVars, tried, ret, info, stratVars, dlOut, stageCmds, cleanCmds>>

\* One iteration of `for i in range(10)` of _wait_for_file_completion; obs is
\* the size the stat reported (0: no usable answer).
FileWaitCheck ==
  /\ pc = "filewait" /\ kind = "ucs"
  /\ fw_i < FileWaitChecks
  /\ \E obs \in RemoteSizes :
       LET stable == IF obs > 0
                       THEN (IF obs = last_size THEN stable_count + 1 ELSE 0)
                       ELSE stable_count
       IN
       IF obs > 0 /\ obs = last_size /\ stable >= stable_threshold
         THEN \* return True: the poller returns a made-up COMPLETED payload
              /\ UcsReturn(FakeCompleted, "FILE_COMPLETE")
              /\ stable_count' = stable
              /\ UNCHANGED <<fw_i, last_size, now>>
         ELSE /\ stable_count' = stable
              /\ last_size' = IF obs > 0 THEN obs ELSE last_size
              /\ fw_i' = fw_i + 1
              /\ now' = now + FileWaitSleep
              /\ pc' = pc /\ UNCHANGED pollOut
  /\ UNCHANGED <<remoteVars, locVars, extractVars, transferVars, bc_copied, cfgVars, createVars, tried, ret, info, elapsed, check_count, consecutive_failures,
                 pollHist, stratVars, dlOut, stageCmds, cleanCmds>>

\* The for loop of _wait_for_file_completion is exhausted:
\* `return last_size > 10 * 1024 * 1024`, then the rest of the block.
FileWaitEnd ==
  /\ pc = "filewait" /\ kind = "ucs"
  /\ ~(fw_i < FileWaitChecks)
  /\ IF last_size > UCS_EXISTS_MIN
       THEN /\ UcsReturn(FakeCompleted, "FILE_COMPLETE")
            /\ UNCHANGED <<now, consecutive_failures>>
       ELSE UcsContinueOrAbort(now, elapsed, consecutive_failures)
  /\ UNCHANGED <<remoteVars, locVars, extractVars, transferVars, bc_copied, cfgVars, createVars, tried, ret, info, elapsed, check_count, fwVars,
                 pollHist, stratVars, dlOut, stageCmds, cleanCmds>>

\* UcsFinalCheckSucceeds taking every parsed 200 payload as completion.
UcsFinalCheckSucceeds_AnyPayload(resp) ==
  resp \in {"COMPLETED", "RUNNING", "UNKNOWN"}

\* The final check after the deadline: `final_response.status_code == 200`
\* and `final_status == 'COMPLETED'`; everything else, exceptions included,
\* falls through to `return None`.
UcsFinalCheckSucceeds(resp) == resp = "COMPLETED"

\* The loop condition is false: TIMEOUT, then the final status check.
UcsPollTimeout ==
  /\ pc = "poll" /\ kind = "ucs"
  /\ ~(now < timeout)
  /\ \E resp \in UcsResponses \cup {"NON200"} :
       /\ NoteGet(IF resp = "NON200" THEN "BAD_BODY" ELSE resp, {"COMPLETED", "FAILED"})
       /\ IF UcsFinalCheckSucceeds(resp)
            THEN UcsReturn([state |-> resp, name |-> TRUE, uri |-> FALSE], "COMPLETED_LATE")
            ELSE UcsReturn(NullInfo, "TIMEOUT")
  /\ UNCHANGED <<remoteVars, locVars, extractVars, transferVars, bc_copied, cfgVars, createVars, tried, ret, info, pollLocals, fwVars,
                 stratVars, dlOut, stageCmds, cleanCmds>>

\* Step 2 of create_and_download_ucs: on a null result the workflow asks
\* _check_if_ucs_exists_by_name and goes on when the file has more than 10MB.
UcsAfterWait ==
  /\ pc = "polled" /\ kind = "ucs"
  /\ IF pollResult.state # "null"
       THEN /\ info' = pollResult
            /\ pc' = "download" /\ ret' = ret
       ELSE \E ucs_size \in RemoteSizes :
              LET ucs_exists == ucs_size > 0 IN
              IF ucs_exists /\ ucs_size > UCS_EXISTS_MIN
                THEN /\ info' = FakeCompleted
                     /\ pc' = "download" /\ ret' = ret
                ELSE /\ info' = info
                     /\ pc' = "done" /\ ret' = "False"
  /\ now' = 0 /\ elapsed' = 0 /\ check_count' = 0 /\ consecutive_failures' = 0
  /\ fw_i' = 0 /\ last_size' = 0 /\ stable_count' = 0
  /\ hist' = "ip" /\ ipCount' = 0 /\ lastGet' = "none" /\ failRun' = 0
  /\ UNCHANGED <<remoteVars, locVars, extractVars, transferVars, bc_copied, cfgVars, createVars, tried, pollOut, taskHist, stratVars, dlOut, stageCmds, cleanCmds>>

\* ------------------------------------------------------ snapshot download
\* The download step returns (r, n) to the workflow.
DownloadReturns(r, n) ==
  /\ download_result' = r /\ downloaded_file_size' = n /\ downloaded' = TRUE
  /\ pc' = "downloaded"

\* `result = method(...)`: what a strategy returned, the byte count kept for
\* a success.
Tried(method, success, n) ==
  tried' = Append(tried, [method |-> method, ok |-> success,
                          bytes |-> IF success THEN n ELSE 0])

\* download_methods, in the order of the list
download_methods == <<"autodeploy_uri", "file_transfer", "bash_copy">>

\* StrategyStops going on to the next strategy whatever the result.
StrategyStops_Never(success) == FALSE

\* `if success: return True, file_size`, else the loop goes on.
StrategyStops(success) == success

\* _download_qkview up to its first strategy: the filename of the payload,
\* then _find_qkview_file (ls commands only), which finds a path or None.
QkDownloadStart ==
  /\ pc = "download" /\ kind = "qkview"
  /\ IF ~info.name
       THEN /\ DownloadReturns(FALSE, 0)
            /\ UNCHANGED <<actual_path, remoteVars>>
       ELSE /\ \E p \in {"none", "found"} : actual_path' = p
            /\ source_there' = TRUE /\ staged_there' = staged_there
            /\ pc' = "dl_uri"
            /\ UNCHANGED dlOut
  /\ UNCHANGED <<locVars, extractVars, transferVars, bc_copied, cfgVars, createVars, tried, ret, info, pollLocals, fwVars, pollOut, pollHist,
                 ft_moved, st_success, st_size, ft_failed_fetch, stageCmds, cleanCmds>>

\* Strategy 1, _download_via_autodeploy_uri: fails at once without a
\* qkviewUri, else the chunked transfer yields (success, file_size).
QkDownloadViaUri ==
  /\ pc = "dl_uri"
  /\ IF ~info.uri
       THEN /\ pc' = "ft_move"
            /\ Tried("autodeploy_uri", FALSE, 0)
            /\ UNCHANGED <<dlOut, downloadReqs>>
       ELSE /\ downloadReqs' = downloadReqs + 1
            /\ \E o \in DlOutcomes(kind) :
                 /\ Tried("autodeploy_uri", o[1], o[2])
                 /\ IF StrategyStops(o[1])
                      THEN DownloadReturns(TRUE, o[2])
                      ELSE pc' = "ft_move" /\ UNCHANGED dlOut
  /\ UNCHANGED <<remoteVars, locVars, extractVars, transferVars, bc_copied, cfgVars, createVars, ret, info, pollLocals, fwVars, pollOut, pollHist,
                 stratVars, mvCmds, mvBackCmds, cpCmds, stagedRmCmds, ftStagedRm,
                 cleanCmds>>

\* Number of move commands _download_via_file_transfer issues, and whether it
\* goes on to the download: unix-mv first, `bash -c mv` when that is not 200.
FtMoveCmds(mv) == IF mv = "non200" THEN 2 ELSE 1
FtMoved(mv, bash) == mv = "ok" \/ (mv = "non200" /\ bash = "ok")

\* Strategy 2, _download_via_file_transfer, the move step.
FtMove ==
  /\ pc = "ft_move"
  /\ \E mv \in {"ok", "non200", "raise"},
        bash \in {"ok", "non200", "nosuch", "raise"} :
       /\ (mv # "non200") => bash = "ok"
       /\ mvCmds' = mvCmds + FtMoveCmds(mv)
       /\ IF FtMoved(mv, bash) /\ source_there
            THEN source_there' = FALSE /\ staged_there' = TRUE
            ELSE UNCHANGED remoteVars
       /\ IF FtMoved(mv, bash)
            THEN ft_moved' = TRUE /\ pc' = "ft_fetch" /\ UNCHANGED tried
            ELSE ft_moved' = ft_moved /\ pc' = "bc_copy" /\ Tried("file_transfer", FALSE, 0)
  /\ UNCHANGED <<locVars, extractVars, transferVars, bc_copied, cfgVars, createVars, ret, info, pollLocals, fwVars, pollOut, pollHist,
                 actual_path, st_success, st_size, ft_failed_fetch, dlOut,
                 downloadReqs, mvBackCmds, cpCmds, stagedRmCmds, ftStagedRm, cleanCmds>>

\* Strategy 2, `success, file_size = self._perform_download(...)`.
FtFetch ==
  /\ pc = "ft_fetch"
  /\ downloadReqs' = downloadReqs + 1
  /\ \E o \in DlOutcomes(kind) :
       /\ st_success' = o[1] /\ st_size' = o[2]
       /\ ft_failed_fetch' = (ft_failed_fetch \/ ~o[1])
  /\ pc' = "ft_finish"
  /\ UNCHANGED <<remoteVars, locVars, extractVars, transferVars, bc_copied, cfgVars, createVars, tried, ret, info, pollLocals, fwVars, pollOut, pollHist,
                 actual_path, ft_moved, dlOut,
                 mvCmds, mvBackCmds, cpCmds, stagedRmCmds, ftStagedRm, cleanCmds>>

\* `if not success and actual_path:` the file is moved back; otherwise the
\* staged copy is removed.
FtRestores(success, path) == ~success /\ path = "found"

\* Strategy 2, after the download: restore or remove the staged copy, then
\* return (success, file_size); a raising POST makes it (False, 0).
FtFinish ==
  /\ pc = "ft_finish"
  /\ IF FtRestores(st_success, actual_path)
       THEN /\ mvBackCmds' = mvBackCmds + 1
            /\ UNCHANGED <<stagedRmCmds, ftStagedRm>>
       ELSE /\ stagedRmCmds' = stagedRmCmds + 1
            /\ ftStagedRm' = ftStagedRm + 1
            /\ UNCHANGED mvBackCmds
  /\ \E raises \in BOOLEAN :
       /\ IF raises THEN UNCHANGED remoteVars
          ELSE IF FtRestores(st_success, actual_path)
            THEN \E back \in BOOLEAN :
                   IF back /\ staged_there
                     THEN source_there' = TRUE /\ staged_there' = FALSE
                     ELSE UNCHANGED remoteVars
            ELSE staged_there' = FALSE /\ source_there' = source_there
       /\ Tried("file_transfer", st_success /\ ~raises, st_size)
       /\ IF StrategyStops(st_success /\ ~raises)
            THEN DownloadReturns(TRUE, st_size)
            ELSE pc' = "bc_copy" /\ UNCHANGED dlOut
  /\ st_success' = FALSE /\ st_size' = 0
  /\ UNCHANGED <<locVars, extractVars, transferVars, bc_copied, cfgVars, createVars, ret, info, pollLocals, fwVars, pollOut, pollHist,
                 actual_path, ft_moved, ft_failed_fetch,
                 downloadReqs, mvCmds, cpCmds, cleanCmds>>

\* Strategy 3, _download_via_bash_copy, up to the download: the ls of the
\* source, then the cp into the staging directory.  A cp answered without
\* 'No such file' had a source to copy.
BcCopy ==
  /\ pc = "bc_copy"
  /\ \E ver \in {"ok", "nosuch", "raise"},
        cp \in {"ok", "non200", "nosuch", "raise"} :
       /\ (ver # "ok") => cp = "ok"
       /\ (ver = "ok" /\ cp = "ok") => source_there
       /\ staged_there' = (staged_there \/ (ver = "ok" /\ cp = "ok"))
       /\ source_there' = source_there
       /\ IF ver # "ok"
            THEN /\ DownloadReturns(FALSE, 0)
                 /\ Tried("bash_copy", FALSE, 0)
                 /\ UNCHANGED <<cpCmds, bc_copied>>
            ELSE /\ cpCmds' = cpCmds + 1
                 /\ bc_copied' = (cp = "ok")
                 /\ IF cp = "ok"
                      THEN pc' = "bc_fetch" /\ UNCHANGED <<dlOut, tried>>
                      ELSE DownloadReturns(FALSE, 0) /\ Tried("bash_copy", FALSE, 0)
  /\ UNCHANGED <<locVars, extractVars, transferVars, cfgVars, createVars, ret, info, pollLocals, fwVars, pollOut, pollHist,
                 stratVars, downloadReqs, mvCmds, mvBackCmds, stagedRmCmds,
                 ftStagedRm, cleanCmds>>

\* Strategy 3, `success, file_size = self._perform_download(...)`.
BcFetch ==
  /\ pc = "bc_fetch"
  /\ downloadReqs' = downloadReqs + 1
  /\ \E o \in DlOutcomes(kind) : st_success' = o[1] /\ st_size' = o[2]
  /\ pc' = "bc_finish"
  /\ UNCHANGED <<remoteVars, locVars, extractVars, transferVars, bc_copied, cfgVars, createVars, tried, ret, info, pollLocals, fwVars, pollOut, pollHist,
                 actual_path, ft_moved, ft_failed_fetch, dlOut,
                 mvCmds, mvBackCmds, cpCmds, stagedRmCmds, ftStagedRm, cleanCmds>>

\* BcRemovesStaged leaving the staged copy of a failed download in place.
BcRemovesStaged_OnlyOnSuccess(success) == success

\* "Clean up the copied file regardless of success": the rm -f is posted
\* unconditionally after _perform_download returned.
BcRemovesStaged(success) == TRUE

\* Strategy 3, after the download: the staged copy is removed regardless of
\* success; a raising POST makes the result (False, 0).
BcFinish ==
  /\ pc = "bc_finish"
  /\ stagedRmCmds' = (IF BcRemovesStaged(st_success) THEN stagedRmCmds + 1 ELSE stagedRmCmds)
  /\ \E raises \in BOOLEAN :
     /\ staged_there' = (staged_there /\ (raises \/ ~BcRemovesStaged(st_success)))
     /\ source_there' = source_there
     /\
       IF raises THEN DownloadReturns(FALSE, 0) /\ Tried("bash_copy", FALSE, 0)
                 ELSE /\ Tried("bash_copy", st_success, st_size)
                      /\ IF st_success THEN DownloadReturns(TRUE, st_size)
                                       ELSE DownloadReturns(FALSE, 0)
  /\ st_success' = FALSE /\ st_size' = 0
  /\ UNCHANGED <<locVars, extractVars, transferVars, bc_copied, cfgVars, createVars, ret, info, pollLocals, fwVars, pollOut, pollHist,
                 actual_path, ft_moved, ft_failed_fetch,
                 downloadReqs, mvCmds, mvBackCmds, cpCmds, ftStagedRm, cleanCmds>>

\* -------------------------------------------------------- backup download
\* _download_ucs: it fails before any transfer when the file is not found,
\* not readable or the operator declines; else the base64 chunked read
\* yields (success, file_size).  It issues no move, copy or remove command.
UcsDownload ==
  /\ pc = "download" /\ kind = "ucs"
  /\ \E ready \in BOOLEAN, o \in DlOutcomes(kind) :
       /\ ~ready => o = <<FALSE, 0>>
       /\ downloadReqs' = IF ready THEN downloadReqs + 1 ELSE downloadReqs
       /\ DownloadReturns(o[1], o[2])
  /\ UNCHANGED <<remoteVars, locVars, extractVars, transferVars, bc_copied, cfgVars, createVars, tried, ret, info, pollLocals, fwVars, pollOut, pollHist,
                 stratVars, mvCmds, mvBackCmds, cpCmds, stagedRmCmds, ftStagedRm,
                 cleanCmds>>

\* ------------------------------------------------------------------ cleanup
CleanupThreshold(k) == IF k = "qkview" THEN QK_CLEANUP_MIN ELSE UCS_CLEANUP_MIN

\* CleanupAllowed with the size gate off by one byte (>= for >).
CleanupAllowed_AtThreshold(k, hasName, n) ==
  (k = "ucs" \/ hasName) /\ n >= CleanupThreshold(k)

\* The size gate of step 4: `filename and downloaded_file_size > 5MB` for
\* the snapshot, `downloaded_file_size > 1MB` for the backup.
CleanupAllowed(k, hasName, n) ==
  (k = "ucs" \/ hasName) /\ n > CleanupThreshold(k)

\* WorkflowCleans with step 4 outside the `if download_result:` branch.
WorkflowCleans_IgnoresResult(result, allowed, nodelete) == allowed /\ ~nodelete

\* Whether step 4 calls the two cleanup methods.
WorkflowCleans(result, allowed, nodelete) == result /\ allowed /\ ~nodelete

\* Steps 3/4 of create_and_download_*: the branch on download_result, the
\* size gate and --no-delete.
AfterDownload ==
  /\ pc = "downloaded"
  /\ IF WorkflowCleans(download_result,
                       CleanupAllowed(kind, info.name, downloaded_file_size),
                       no_delete)
       THEN pc' = "cleanup_file" /\ ret' = ret
       ELSE pc' = "done" /\ ret' = (IF download_result THEN "True" ELSE "False")
  /\ UNCHANGED <<remoteVars, locVars, extractVars, transferVars, bc_copied, cfgVars, createVars, tried, info, pollLocals, fwVars, pollOut, pollHist,
                 stratVars, dlOut, stageCmds, cleanCmds>>

\* what a cleanup request can do: succeed, return an error status (which
\* raise_for_status turns into an exception), or raise
CleanupOutcomes == {"ok", "http_error", "raise"}

\* CleanupContinues letting the exception of a failed request reach the
\* workflow.
CleanupContinues_OnlyOk(out) == out = "ok"

\* `except Exception as e: print(Warning ...)`: every cleanup method
\* returns normally whatever its requests did.
CleanupContinues(out) == TRUE

\* _cleanup_qkview_file: one unix-rm of /var/tmp/<filename>; errors are
\* swallowed.
QkCleanupFile ==
  /\ pc = "cleanup_file" /\ kind = "qkview"
  /\ rmOrigCmds' = rmOrigCmds + 1
  /\ \E out \in CleanupOutcomes :
       /\ fileCleanup' = out
       /\ source_there' = (source_there /\ out # "ok")
       /\ staged_there' = staged_there
       /\ IF CleanupContinues(out)
            THEN pc' = "cleanup_task" /\ ret' = ret
            ELSE pc' = "done" /\ ret' = "False"
  /\ UNCHANGED <<locVars, extractVars, transferVars, bc_copied, cfgVars, createVars, tried, info, pollLocals, fwVars, pollOut, pollHist,
                 stratVars, dlOut, stageCmds, forceRmCmds, taskDeletes,
                 taskCleanup, verifyCmds>>

\* _cleanup_ucs_file: the rm -f is issued unless the ls raised or reported
\* "No such file".
UcsRmIssued(chk) == chk \in {"present", "non200"}

\* The existence re-check is issued when the rm -f returned 200 without
\* "cannot remove".
UcsVerifyIssued(chk, rm) == UcsRmIssued(chk) /\ rm = "ok"

\* The forced `rm -rf ...; sync` is issued when the rm -f returned 200
\* without "cannot remove" and the verify returned STILL_EXISTS.
UcsForceIssued(chk, rm, ver) ==
  UcsVerifyIssued(chk, rm) /\ ver = "STILL_EXISTS"

\* How the requests of _cleanup_ucs_file went, as a whole.
UcsFileOutcome(chk, rm, ver, force) ==
  LET sent == {chk} \cup (IF UcsRmIssued(chk) THEN {rm} ELSE {})
                    \cup (IF UcsVerifyIssued(chk, rm) THEN {ver} ELSE {})
                    \cup (IF UcsForceIssued(chk, rm, ver) THEN {force} ELSE {})
  IN  IF "raise" \in sent THEN "raise"
      ELSE IF "non200" \in sent THEN "http_error"
      ELSE "ok"

\* _cleanup_ucs_file: ls, rm -f, the re-check, and on STILL_EXISTS the
\* forced rm -rf with its own re-check; errors are swallowed.
UcsCleanupFile ==
  /\ pc = "cleanup_file" /\ kind = "ucs"
  /\ \E chk \in {"nosuch", "present", "non200", "raise"},
        rm \in {"ok", "cannot", "non200", "raise"},
        ver \in {"DELETED", "STILL_EXISTS", "other", "non200", "raise"},
        force \in {"ok", "non200", "raise"} :
       /\ ~UcsRmIssued(chk) => rm = "ok"
       /\ ~UcsVerifyIssued(chk, rm) => ver = "DELETED"
       /\ ~UcsForceIssued(chk, rm, ver) => force = "ok"
       /\ forceRmCmds' = forceRmCmds + (IF UcsForceIssued(chk, rm, ver) THEN 1 ELSE 0)
       /\ rmOrigCmds' = rmOrigCmds + (IF UcsRmIssued(chk) THEN 1 ELSE 0)
                                   + (IF UcsForceIssued(chk, rm, ver) THEN 1 ELSE 0)
       /\ verifyCmds' = verifyCmds + (IF UcsVerifyIssued(chk, rm) THEN 1 ELSE 0)
                                   + (IF UcsForceIssued(chk, rm, ver) /\ force = "ok"
                                        THEN 1 ELSE 0)
       /\ fileCleanup' = UcsFileOutcome(chk, rm, ver, force)
       /\ IF CleanupContinues(UcsFileOutcome(chk, rm, ver, force))
            THEN pc' = "cleanup_task" /\ ret' = ret
            ELSE pc' = "done" /\ ret' = "False"
  /\ UNCHANGED <<remoteVars, locVars, extractVars, transferVars, bc_copied, cfgVars, createVars, tried, info, pollLocals, fwVars, pollOut, pollHist,
                 stratVars, dlOut, stageCmds, taskDeletes, taskCleanup>>

\* _cleanup_qkview_task / _cleanup_ucs_task: one DELETE of the task record,
\* errors swallowed; then `return True`.
CleanupTask ==
  /\ pc = "cleanup_task"
  /\ taskDeletes' = taskDeletes + 1
  /\ \E out \in CleanupOutcomes :
       /\ taskCleanup' = out
       /\ ret' = (IF CleanupContinues(out) THEN "True" ELSE "False")
  /\ pc' = "done"
  /\ UNCHANGED <<remoteVars, locVars, extractVars, transferVars, bc_copied, cfgVars, createVars, tried, info, pollLocals, fwVars, pollOut, pollHist,
                 stratVars, dlOut, stageCmds, rmOrigCmds, forceRmCmds,
                 fileCleanup, verifyCmds>>

\* ================================================================== claims
\* The Remote Cleanup step of the workflow has been entered or has issued a
\* call.
CleanupInvoked ==
  pc \in {"cleanup_file", "cleanup_task"} \/ rmOrigCmds > 0 \/ taskDeletes > 0

\* C1: the remote-file removal and the task-record DELETE are issued only if
\* the download reported success and the downloaded byte count is strictly
\* greater than the kind's threshold (5MB snapshot, 1MB backup); at or below
\* the threshold no cleanup call is issued.
C1_CleanupOnlyAboveThreshold ==
  CleanupInvoked =>
    /\ download_result
    /\ downloaded_file_size >
         (IF kind = "qkview" THEN 5 * 1024 * 1024 ELSE 1 * 1024 * 1024)

\* C1 witness: a successful download of exactly the threshold size, deletion
\* enabled, workflow finished with success and without any cleanup call.
C1_Witness ==
  /\ pc = "done" /\ ret = "True" /\ ~no_delete
  /\ download_result
  /\ downloaded_file_size =
       (IF kind = "qkview" THEN 5 * 1024 * 1024 ELSE 1 * 1024 * 1024)
  /\ rmOrigCmds = 0 /\ taskDeletes = 0

\* C2 (as claimed): with no-delete set, no DELETE and no remove-file command
\* (unix-rm, rm -f, rm -rf) is issued on any path of either workflow.
C2_NoDeleteNoDestructiveCall ==
  no_delete => (rmOrigCmds = 0 /\ taskDeletes = 0 /\ stagedRmCmds = 0)

\* C3: a cleanup call (file removal, task DELETE) is issued only after the
\* download has returned success; after a failed download none is issued.
C3_CleanupAfterVerifiedDownload ==
  /\ [][(rmOrigCmds' > rmOrigCmds \/ taskDeletes' > taskDeletes)
          => (downloaded /\ download_result)]_vars
  /\ [](CleanupInvoked => (downloaded /\ download_result))
  /\ []((downloaded /\ ~download_result) => (rmOrigCmds = 0 /\ taskDeletes = 0))

\* C3 witness: both cleanup calls were issued, after a successful download.
C3_Witness ==
  /\ pc = "done" /\ downloaded /\ download_result
  /\ rmOrigCmds >= 1 /\ taskDeletes = 1

\* C4 (as claimed): in move-then-fetch, once the artifact was moved to the
\* staging directory and the download failed, the move back is issued and the
\* staged copy is not removed; whether or not the locator found the path.
C4_FailedFetchRestores ==
  (ft_moved /\ ft_failed_fetch /\ pc # "ft_finish")
    => (mvBackCmds = 1 /\ ftStagedRm = 0)

\* C5 (as claimed): the backup workflow treats the task as completed, and
\* goes on to download, only if a status GET returned _taskState COMPLETED.
C5_CompletedOnlyIfObserved ==
  (kind = "ucs" /\ (pollResult.state = "COMPLETED" \/ info.state = "COMPLETED"
                    \/ pc = "download" \/ downloaded))
    => terminalSeen = "SUCCEEDED"

\* C6: the snapshot poller fed n IN_PROGRESS then SUCCEEDED, n*15s below the
\* deadline, issues n+1 status GETs, lets n intervals of 15s elapse and
\* returns the SUCCEEDED payload; fed only IN_PROGRESS it returns only once
\* the deadline is used up; it returns non-null only on SUCCEEDED.
C6_SnapshotPollerSequence ==
  kind = "qkview" =>
    /\ (pc = "polled" /\ hist = "ip_succ") =>
          /\ statusGets = ipCount + 1
          /\ now = 15 * ipCount
          /\ 15 * ipCount < timeout
          /\ pollResult.state = "SUCCEEDED"
    /\ (pc = "polled" /\ hist = "ip") => 15 * ipCount >= timeout
    /\ (pollResult.state # "null") =>
          (terminalSeen = "SUCCEEDED" /\ pollResult.state = "SUCCEEDED")

\* C6 witness: [IN_PROGRESS, IN_PROGRESS, SUCCEEDED] has been fed and the
\* poller has returned.
C6_Witness ==
  /\ kind = "qkview" /\ pc = "polled" /\ hist = "ip_succ"
  /\ ipCount = 2 /\ statusGets = 3 /\ now = 30
  /\ pollResult.state = "SUCCEEDED"

\* C7: once a status GET returned a terminal state no further status GET is
\* issued for the task in the rest of the workflow, and FAILED makes the
\* poller return null at once.
C7_NoPollAfterTerminal ==
  /\ [][terminalSeen # "none" => statusGets' = statusGets]_vars
  /\ [](terminalSeen = "FAILED" =>
          (pollResult.state = "null" /\ pc \notin {"poll", "filewait"}))

\* C7 witness: the backup task reported FAILED and the workflow then ran on
\* to its end through a download.
C7_Witness ==
  /\ terminalSeen = "FAILED" /\ kind = "ucs" /\ pc = "done" /\ downloaded
  /\ statusGets >= 2

\* C8 (as claimed): when backup polling ends with FAILED or TIMEOUT, the
\* workflow returns failure and issues no download request and no cleanup.
C8_NoArtifactAfterFailedOrTimeout ==
  (kind = "ucs" /\ pollEnd \in {"FAILED", "TIMEOUT"})
    => /\ pc # "download" /\ ~downloaded /\ downloadReqs = 0
       /\ ~CleanupInvoked
       /\ ret # "True"

\* C9 (as claimed): the snapshot poller aborts because of transport failures
\* only when 3 consecutive status checks have failed.
C9_AbortOnlyAfterThreeConsecutive ==
  (kind = "qkview" /\ pc = "polled" /\ pollEnd = "ABORT") => failRun >= 3

\* C10: in the polling loop of the backup poller the consecutive-failure
\* count is 0 after every successful status check, and the poller ends
\* because of transport failures only after 10 consecutive failed checks.
C10_BackupFailureTolerance ==
  kind = "ucs" =>
    /\ (lastGet = "ok" /\ pollEnd \notin {"TIMEOUT", "COMPLETED_LATE"})
          => consecutive_failures = 0
    /\ (pc \in {"polled", "filewait"} /\ pollEnd \in {"ABORT", "EXC", "FILE_COMPLETE"})
          => failRun >= 10
    /\ pc = "filewait" => failRun >= 10

\* C10 witness: a failed check, a successful one, then ten failed checks in
\* a row, on which the poller aborted.
C10_Witness ==
  /\ kind = "ucs" /\ pc = "polled" /\ pollEnd = "ABORT"
  /\ failRun = 10 /\ ipCount = 1 /\ statusGets = 12

\* ------------------------------------------------------- saving the file
Abs(x) == IF x < 0 THEN 0 - x ELSE x

Min(a, b) == IF a < b THEN a ELSE b

\* bytes.lower() on what the file begins with
LowerBytes(b) ==
  CASE b = "<HTML>" -> "<html>"
    [] b = "Error" -> "error"
    [] OTHER -> b

\* `b'<html>' in first_bytes.lower() or b'error' in first_bytes.lower()`
HasMarker(b) == LowerBytes(b) \in {"<html>", "error"}

\* f.read(100) of the saved file
FirstBytes(n, h) == IF n = 0 THEN "" ELSE h

\* The final size rule of the chunked transfers: exact, within 1KB, or at
\* least 95% of the expected size; no rule when no size was learned.
SizeAccepted(expected, final) ==
  expected > 0 =>
    \/ Abs(final - expected) <= SizeTolerance
    \/ 20 * final >= 19 * expected

\* The size rule of _perform_download: within 1KB of Content-Length.
PerformSizeAccepted(total, final) ==
  total > 0 => Abs(final - total) <= SizeTolerance

\* The checks of QKViewHandler._download_chunked_f5_method after its loop:
\* the size rule, then the sniff of a file below 1MB.
QkChunkedResult(sz, final, h) ==
  IF ~SizeAccepted(IF sz > 0 THEN sz + 1 ELSE 0, final) THEN <<FALSE, final>>
  ELSE IF final < QkSniffBelow /\ HasMarker(FirstBytes(final, h)) THEN <<FALSE, final>>
  ELSE <<TRUE, final>>

\* The checks of _perform_download after the file is saved: the sniff of a
\* file below 5MB, then the size rule.
PerformResult(total, final, h) ==
  IF final < PerformSniffBelow /\ HasMarker(FirstBytes(final, h)) THEN <<FALSE, final>>
  ELSE IF ~PerformSizeAccepted(total, final) THEN <<FALSE, final>>
  ELSE <<TRUE, final>>

\* The checks of UCSHandler._download_chunked_f5_method after its loop.
UcsChunkedResult(total, final, h) ==
  IF ~SizeAccepted(total, final) THEN <<FALSE, final>>
  ELSE IF final < UcsSniffBelow /\ HasMarker(FirstBytes(final, h)) THEN <<FALSE, final>>
  ELSE <<TRUE, final>>

\* The function returns (r[1], r[2]).
TransferReturns(r) ==
  /\ t_success' = (IF r[1] THEN "True" ELSE "False") /\ t_size' = r[2]
  /\ t_pc' = "done"

\* The function returns (False, 0) before its final checks.
TransferFails ==
  /\ TransferReturns(<<FALSE, 0>>)
  /\ UNCHANGED <<total_size, final_size, verified>>

\* The loop was left by `break`: the final checks on the saved file.
ChunkedFinish(sz, final) ==
  /\ total_size' = (IF sz > 0 THEN sz + 1 ELSE 0) /\ final_size' = final
  /\ verified' = TRUE
  /\ TransferReturns(QkChunkedResult(sz, final, head))

\* bytes the device sends for the range lo..hi of a file of `total` bytes,
\* `short` bytes missing
BodyLen(lo, hi, total, short) ==
  LET full == Min(hi, total - 1) - lo + 1
  IN  IF full - short > 0 THEN full - short ELSE 0

\* NextEnd asking for all the rest of the file at once.
NextEnd_AlwaysLast(st, cb, sz) == sz

\* `if (current_bytes + chunk_size) > (size + 1): end = size`
\* `else: end = start + chunk_size - 1`
NextEnd(st, cb, sz) ==
  IF cb + chunk_size > sz + 1 THEN sz ELSE st + chunk_size - 1

\* SoftComplete taking every 400 as the end of the file.
SoftComplete_Always(current_file_size, sz) == TRUE

\* A 400 ends the loop as complete: `current_file_size > 0 and size > 0`
\* and `abs(current_file_size - expected_size) <= 1024`.
SoftComplete(current_file_size, sz) ==
  /\ current_file_size > 0 /\ sz > 0
  /\ Abs(current_file_size - (sz + 1)) <= SizeTolerance

\* One iteration of the loop of QKViewHandler._download_chunked_f5_method:
\* the request for start..end and the handling of its response.
ChunkRequest ==
  /\ t_pc = "request" /\ fn = "qk_chunked"
  /\ \E resp \in ChunkResponses, short \in Shortfalls :
       /\ resp # "200" => short = 0
       /\ resp = "200_bad_range" => size = 0
       /\ resp = "206" => n206 < Max206
       /\ reqs' = Append(reqs, <<start, end>>)
       /\ last_status' = resp /\ prev_start' = start /\ prev_written' = written
       /\ faithful' = (faithful /\ resp = "200" /\ short = 0)
       /\ n206' = IF resp = "206" THEN n206 + 1 ELSE n206
       /\ CASE resp = "200" ->
                 LET size1 == IF size = 0 THEN remote_total - 1 ELSE size
                     end1 == IF size = 0 /\ chunk_size > size1 THEN size1 ELSE end
                     body == BodyLen(start, end, remote_total, short)
                     written1 == IF size1 > 0 THEN written + body ELSE written
                     cb1 == IF size1 > 0 THEN current_bytes + chunk_size ELSE current_bytes
                 IN  /\ size' = size1 /\ written' = written1 /\ current_bytes' = cb1
                     /\ IF end1 = size1
                          THEN /\ start' = start /\ end' = end1
                               /\ ChunkedFinish(size1, written1)
                          ELSE /\ start' = start + chunk_size
                               /\ end' = NextEnd(start + chunk_size, cb1, size1)
                               /\ UNCHANGED <<t_pc, transferOut>>
            [] resp = "206" ->
                 UNCHANGED <<chunkLocals, t_pc, transferOut>>
            [] resp = "400" ->
                 /\ UNCHANGED chunkLocals
                 /\ IF SoftComplete(written, size)
                      THEN ChunkedFinish(size, written)
                      ELSE TransferFails
            [] OTHER ->
                 /\ UNCHANGED chunkLocals
                 /\ TransferFails
  /\ UNCHANGED <<locVars, extractVars, wfVars, fn, remote_total, head>>

\* bytes one GET or one base64 read can leave in the local file, for a
\* remote file of `total` bytes
SavedSizes(total) ==
  {n \in {total, total - SizeTolerance, total - 2 * SizeTolerance, total - total \div 2, 0} :
     n >= 0}

\* _perform_download, whole: the GET (raising, a timeout and an HTTP error
\* give (False, 0)), Content-Length present or not, the file saved and its
\* checks.
PerformDownload ==
  /\ t_pc = "request" /\ fn = "perform_download"
  /\ \E raises \in BOOLEAN, has_length \in BOOLEAN, n \in SavedSizes(remote_total) :
       /\ raises => (has_length /\ n = 0)
       /\ last_status' = (IF raises THEN "raise" ELSE "200")
       /\ IF raises
            THEN TransferFails /\ UNCHANGED written
            ELSE /\ written' = n
                 /\ total_size' = (IF has_length THEN remote_total ELSE 0)
                 /\ final_size' = n /\ verified' = TRUE
                 /\ TransferReturns(PerformResult(IF has_length THEN remote_total ELSE 0,
                                                  n, head))
  /\ UNCHANGED <<locVars, extractVars, wfVars, fn, remote_total, head, start, end, size, current_bytes,
                 reqs, faithful, n206, prev_start, prev_written>>

\* UCSHandler._download_chunked_f5_method, whole: the stat of the remote
\* file (0 when it cannot be read), the base64 reads (a failing one gives
\* (False, 0)), and the checks of the saved file.
UcsChunkedDownload ==
  /\ t_pc = "request" /\ fn = "ucs_chunked"
  /\ \E raises \in BOOLEAN, has_size \in BOOLEAN, n \in SavedSizes(remote_total) :
       /\ raises => (has_size /\ n = 0)
       /\ last_status' = (IF raises THEN "raise" ELSE "200")
       /\ IF raises
            THEN TransferFails /\ UNCHANGED written
            ELSE /\ written' = n
                 /\ total_size' = (IF has_size THEN remote_total ELSE 0)
                 /\ final_size' = n /\ verified' = TRUE
                 /\ TransferReturns(UcsChunkedResult(IF has_size THEN remote_total ELSE 0,
                                                     n, head))
  /\ UNCHANGED <<locVars, extractVars, wfVars, fn, remote_total, head, start, end, size, current_bytes,
                 reqs, faithful, n206, prev_start, prev_written>>

\* A run of one transfer function on a remote file of any of the sizes.
TransferInit ==
  /\ fn \in {"qk_chunked", "perform_download", "ucs_chunked"}
  /\ kind = (IF fn = "ucs_chunked" THEN "ucs" ELSE "qkview")
  /\ no_delete = FALSE
  /\ timeout = check_interval * (IF kind = "ucs" THEN UcsMaxIntervals ELSE QkMaxIntervals)
  /\ pc = "download"
  /\ WorkflowStart
  /\ remote_total \in Totals /\ head \in {"gzip", "<HTML>", "Error"} /\ t_pc = "request"
  /\ TransferStart
  /\ ExtractOff
  /\ LocateOff

TransferNext ==
  \/ ChunkRequest
  \/ PerformDownload
  \/ UcsChunkedDownload

SpecTransfer == TransferInit /\ [][TransferNext]_vars

\* ------------------------------------------------------------ session
\* no workflow and no transfer runs
WorkflowOff ==
  /\ kind = "qkview" /\ no_delete = FALSE
  /\ timeout = check_interval * QkMaxIntervals
  /\ pc = "off"
  /\ WorkflowStart
  /\ fn = "none" /\ remote_total = 0 /\ head = "gzip" /\ t_pc = "off"
  /\ TransferStart

\* What the login POST can come back with: raised: session.post raised;
\* body "tokA"/"tokB": {"token": {"token": <that>}}; "": {"token": {"token": ""}};
\* "no_token": a JSON object without a token; "not_json": response.json() or
\* the .get chain raises.
LoginRaised == [status |-> 0, body |-> "raised"]
LoginResponses ==
  [status : {200, 401}, body : {"tokA", "tokB", "", "no_token", "not_json"}] \cup {LoginRaised}
DeleteOutcomes == {"ok", "error_status", "raise"}

\* auth_response.get('token', {}).get('token')
ParsedToken(body) == IF body = "no_token" THEN "None" ELSE body

\* truth value of a token in `if self.token` / `if not self.token`
Truthy(t) == t \notin {"None", ""}

\* get_auth_token reaches the assignment to self.token
LoginAssigns(r) == r # LoginRaised /\ r.status = 200 /\ r.body # "not_json"

\* return value of get_auth_token
LoginReturns(r) == LoginAssigns(r) /\ Truthy(ParsedToken(r.body))

is_authenticated == token # "None"

\* get_auth_token, whole: the login POST, and the PATCH of _extend_token_timeout
\* once a token is held (a failure of the PATCH is caught there)
GetAuthTokenCall(r) ==
  /\ token' = (IF LoginAssigns(r) THEN ParsedToken(r.body) ELSE token)
  /\ auth_header' = (IF LoginReturns(r) THEN ParsedToken(r.body) ELSE auth_header)
  /\ a_call' = "get_auth_token"
  /\ a_ret' = (IF LoginReturns(r) THEN "True" ELSE "False")
  /\ a_sent' = (IF LoginReturns(r) THEN <<"POST", "PATCH">> ELSE <<"POST">>)
  /\ a_calls' = a_calls + 1

\* logout gets past `if not self.token: return` and sends the revoke DELETE
LogoutSends(t) == Truthy(t)

\* logout reaches `self.token = None` and the removal of the header: the
\* DELETE was sent and did not raise (its status is not looked at)
LogoutClears(t, d) == LogoutSends(t) /\ d # "raise"

\* logout, whole
LogoutCall(d) ==
  /\ token' = (IF LogoutClears(token, d) THEN "None" ELSE token)
  /\ auth_header' = (IF LogoutClears(token, d) THEN "absent" ELSE auth_header)
  /\ a_call' = "logout"
  /\ a_ret' = "returned"
  /\ a_sent' = (IF LogoutSends(token) THEN <<"DELETE">> ELSE <<>>)
  /\ a_calls' = a_calls + 1

\* calls on one auth handler, in any order
GetAuthToken ==
  /\ a_calls < MaxAuthCalls
  /\ \E r \in LoginResponses : GetAuthTokenCall(r)
  /\ UNCHANGED <<locVars, wfVars, transferVars, stepVars, batchVars>>

Logout ==
  /\ a_calls < MaxAuthCalls
  /\ \E d \in DeleteOutcomes : LogoutCall(d)
  /\ UNCHANGED <<locVars, wfVars, transferVars, stepVars, batchVars>>

\* a new handler on a new session
AuthInit ==
  /\ WorkflowOff
  /\ ExtractOff
  /\ LocateOff

SpecAuth == AuthInit /\ [][GetAuthToken \/ Logout]_vars

\* ------------------------------------------------------------ extraction
\* What a query leaves its step with: "ok": the data the step looks for;
\* "none": api_request returned None (non-200 or an exception it caught), or
\* the data lacks the field; "raise": a 200 whose JSON has a shape the step's
\* own code raises on (a list or a number where a dict is read).
QueryOutcomes == {"ok", "none", "raise"}

\* session.get in api_request and api_request_selflink
api_request_method_Post == "POST"
api_request_method == "GET"

\* the order of extract_all_info
NextStep_LogoutBeforeQkview(step) ==
  CASE step = "connect"           -> "system_info"
    [] step = "system_info"       -> "device_serial"
    [] step = "device_serial"     -> "registration_key"
    [] step = "registration_key"  -> "software_version"
    [] step = "software_version"  -> "hotfix_info"
    [] step = "hotfix_info"       -> "additional_info"
    [] step = "additional_info"   -> "support_lifecycle"
    [] step = "support_lifecycle" -> "logout"
    [] step = "logout"            -> "qkview"
    [] step = "qkview"            -> "done"
NextStep(step) ==
  CASE step = "connect"           -> "system_info"
    [] step = "system_info"       -> "device_serial"
    [] step = "device_serial"     -> "registration_key"
    [] step = "registration_key"  -> "software_version"
    [] step = "software_version"  -> "hotfix_info"
    [] step = "hotfix_info"       -> "additional_info"
    [] step = "additional_info"   -> "support_lifecycle"
    [] step = "support_lifecycle" -> "qkview"
    [] step = "qkview"            -> "logout"
    [] step = "logout"            -> "done"

FactSteps == {"system_info", "device_serial", "registration_key", "software_version",
              "hotfix_info", "additional_info", "support_lifecycle"}

\* self.device_info[f] = v for every f of fs
Upd(di, fs, v) == [f \in Fields |-> IF f \in fs THEN v ELSE di[f]]

\* n requests of one method, issued by a step
Reqs(step, method, n) == [i \in 1..n |-> [step |-> step, method |-> method]]

\* a step of extract_all_info has returned; after the last one extract_all_info
\* returns True
StepDone(step, di, got, rs) ==
  /\ device_info' = di
  /\ obtained' = obtained \cup got
  /\ e_reqs' = e_reqs \o rs
  /\ e_trace' = Append(e_trace, step)
  /\ e_pc' = NextStep(step)
  /\ e_ret' = (IF NextStep(step) = "done" THEN "True" ELSE e_ret)

\* connect(): get_auth_token; extract_all_info returns False when it fails
Connect ==
  /\ e_pc = "connect"
  /\ \E r \in LoginResponses :
       /\ GetAuthTokenCall(r)
       /\ e_reqs' = e_reqs \o Reqs("connect", "POST", 1)
                           \o Reqs("connect", "PATCH", IF LoginReturns(r) THEN 1 ELSE 0)
       /\ e_trace' = Append(e_trace, "connect")
       /\ IF LoginReturns(r)
            THEN e_pc' = NextStep("connect") /\ e_ret' = e_ret
            ELSE e_pc' = "done" /\ e_ret' = "False"
  /\ UNCHANGED <<locVars, wfVars, transferVars, batchVars, create_qkview, device_info, obtained,
                 qkview_success>>

\* get_system_info: sys/global-settings, then sys/hardware; the platform
\* extraction catches its own errors
GetSystemInfo ==
  /\ e_pc = "system_info"
  /\ \E q1 \in QueryOutcomes, q2 \in {"ok", "none"} :
       StepDone("system_info",
                (IF q1 = "raise" THEN Upd(device_info, {"hostname", "platform"}, "N/A")
                 ELSE Upd(Upd(device_info, {"hostname"}, IF q1 = "ok" THEN "val" ELSE "N/A"),
                          {"platform"}, IF q2 = "ok" THEN "val" ELSE "N/A")),
                (IF q1 = "ok" THEN {"hostname"} ELSE {})
                  \cup (IF q1 # "raise" /\ q2 = "ok" THEN {"platform"} ELSE {}),
                Reqs("system_info", api_request_method, IF q1 = "raise" THEN 1 ELSE 2))
  /\ UNCHANGED <<locVars, wfVars, transferVars, authVars, batchVars, create_qkview, qkview_success>>

\* get_device_serial: sys/hardware
GetDeviceSerial ==
  /\ e_pc = "device_serial"
  /\ \E q \in QueryOutcomes :
       StepDone("device_serial",
                Upd(device_info, {"serial_number"}, IF q = "ok" THEN "val" ELSE "N/A"),
                (IF q = "ok" THEN {"serial_number"} ELSE {}),
                Reqs("device_serial", api_request_method, 1))
  /\ UNCHANGED <<locVars, wfVars, transferVars, authVars, batchVars, create_qkview, qkview_success>>

\* get_registration_key: sys/license
GetRegistrationKey ==
  /\ e_pc = "registration_key"
  /\ \E q \in QueryOutcomes :
       StepDone("registration_key",
                Upd(device_info, {"registration_key"}, IF q = "ok" THEN "val" ELSE "N/A"),
                (IF q = "ok" THEN {"registration_key"} ELSE {}),
                Reqs("registration_key", api_request_method, 1))
  /\ UNCHANGED <<locVars, wfVars, transferVars, authVars, batchVars, create_qkview, qkview_success>>

\* get_software_version: sys/software/volume ("ok": with an active volume,
\* "inactive": volumes, none active), then sys/version when no active version
\* was found; both fields are written at the end
SoftwareVersion(di, vol, ver) ==
  IF vol = "raise" \/ (vol \in {"inactive", "none"} /\ ver = "raise")
    THEN Upd(di, {"active_version", "available_versions"}, "N/A")
    ELSE Upd(Upd(di, {"active_version"},
                 IF vol = "ok" \/ ver = "ok" THEN "val" ELSE "N/A"),
             {"available_versions"}, IF vol \in {"ok", "inactive"} THEN "val" ELSE "N/A")

GetSoftwareVersion ==
  /\ e_pc = "software_version"
  /\ \E vol \in {"ok", "inactive", "none", "raise"}, ver \in QueryOutcomes :
       LET di == SoftwareVersion(device_info, vol, ver)
       IN  StepDone("software_version", di,
                    {f \in {"active_version", "available_versions"} : di[f] = "val"},
                    Reqs("software_version", api_request_method,
                         IF vol \in {"inactive", "none"} THEN 2 ELSE 1))
  /\ UNCHANGED <<locVars, wfVars, transferVars, authVars, batchVars, create_qkview, qkview_success>>

\* get_hotfix_info: without hotfix data both fields are the string 'None'
GetHotfixInfo ==
  /\ e_pc = "hotfix_info"
  /\ \E q \in QueryOutcomes :
       StepDone("hotfix_info",
                Upd(device_info, {"installed_hotfixes", "emergency_hotfixes"},
                    CASE q = "ok" -> "val" [] q = "none" -> "None" [] q = "raise" -> "N/A"),
                (IF q = "ok" THEN {"installed_hotfixes", "emergency_hotfixes"} ELSE {}),
                Reqs("hotfix_info", api_request_method, 1))
  /\ UNCHANGED <<locVars, wfVars, transferVars, authVars, batchVars, create_qkview, qkview_success>>

\* get_additional_info: system time, memory, CPU, HA status, in this order,
\* under one try; the except branch writes 'N/A' to all of its fields
MemoryFields == {"total_memory", "memory_used", "tmm_memory"}
AdditionalFields == {"system_time", "cpu_count", "ha_status"} \cup MemoryFields

\* how far get_additional_info gets: the sub-step that raised, or "end"
AdditionalRaisedAt(time, mem, cpu) ==
  CASE time = "raise" -> "time"
    [] time # "raise" /\ mem = "raise" -> "memory"
    [] time # "raise" /\ mem # "raise" /\ cpu = "raise" -> "cpu"
    [] OTHER -> "end"

\* _get_ha_status_improved catches the errors of its two queries and falls
\* back to 'Standalone'
AdditionalInfo(di, time, mem, cpu, ha) ==
  IF AdditionalRaisedAt(time, mem, cpu) # "end"
    THEN Upd(Upd(di, AdditionalFields, "N/A"), {"management_ip"}, "val")
    ELSE Upd(Upd(Upd(Upd(Upd(di,
           {"system_time"}, IF time = "ok" THEN "val" ELSE "N/A"),
           MemoryFields, IF mem = "ok" THEN "val" ELSE "N/A"),
           {"cpu_count"}, IF cpu = "ok" THEN "val" ELSE "N/A"),
           {"ha_status"}, IF ha = "ok" THEN "val" ELSE "Standalone"),
           {"management_ip"}, "val")

\* the fields the queries of get_additional_info wrote a value to before it ended
AdditionalObtained(time, mem, cpu, ha) ==
  LET at == AdditionalRaisedAt(time, mem, cpu)
  IN  (IF time = "ok" THEN {"system_time"} ELSE {})
        \cup (IF at \in {"cpu", "end"} /\ mem = "ok" THEN MemoryFields ELSE {})
        \cup (IF at = "end" /\ cpu = "ok" THEN {"cpu_count"} ELSE {})
        \cup (IF at = "end" /\ ha = "ok" THEN {"ha_status"} ELSE {})

GetAdditionalInfo ==
  /\ e_pc = "additional_info"
  /\ \E time \in QueryOutcomes, mem \in QueryOutcomes, cpu \in QueryOutcomes,
        ha \in {"ok", "none"} :
       StepDone("additional_info", AdditionalInfo(device_info, time, mem, cpu, ha),
                AdditionalObtained(time, mem, cpu, ha),
                Reqs("additional_info", api_request_method,
                     CASE AdditionalRaisedAt(time, mem, cpu) = "time" -> 1
                       [] AdditionalRaisedAt(time, mem, cpu) = "memory" -> 2
                       [] AdditionalRaisedAt(time, mem, cpu) = "cpu" -> 3
                       [] OTHER -> 4))
  /\ UNCHANGED <<locVars, wfVars, transferVars, authVars, batchVars, create_qkview, qkview_success>>

\* _get_support_lifecycle_info: a lookup in the local lifecycle table, no request
GetSupportLifecycleInfo ==
  /\ e_pc = "support_lifecycle"
  /\ \E look \in {"found", "unknown", "raise"} :
       StepDone("support_lifecycle",
                Upd(device_info, {"support_status"},
                    IF device_info["active_version"] = "N/A" THEN "N/A"
                    ELSE CASE look = "found" -> "val" [] look = "unknown" -> "Unknown"
                           [] look = "raise" -> "Error"),
                {}, <<>>)
  /\ UNCHANGED <<locVars, wfVars, transferVars, authVars, batchVars, create_qkview, qkview_success>>

\* device_info['qkview_downloaded']
QkviewDownloaded_YesWhenEnabled(create, success) ==
  IF create THEN "Yes" ELSE "Not requested"
QkviewDownloaded(create, success) ==
  IF create THEN (IF success THEN "Yes" ELSE "Failed") ELSE "Not requested"

\* the requests of a snapshot workflow: the creation POST; the status GETs;
\* the download GETs, the shell POSTs and the DELETE of the task
WorkflowRequests(success) ==
  LET post == Reqs("qkview", "POST", 1)
      full == post \o Reqs("qkview", "GET", 2) \o post \o Reqs("qkview", "DELETE", 1)
  IN  IF success THEN {full} ELSE {post, post \o Reqs("qkview", "GET", 1), full}

\* the snapshot branch of extract_all_info; create_and_download_qkview
\* catches its errors and returns a boolean
QkviewStep ==
  /\ e_pc = "qkview"
  /\ IF create_qkview
       THEN \E success \in BOOLEAN : \E ms \in WorkflowRequests(success) :
              /\ qkview_success' = (IF success THEN "True" ELSE "False")
              /\ StepDone("qkview",
                          Upd(device_info, {"qkview_downloaded"},
                              QkviewDownloaded(create_qkview, success)),
                          {}, ms)
       ELSE /\ qkview_success' = qkview_success
            /\ StepDone("qkview",
                        Upd(device_info, {"qkview_downloaded"},
                            QkviewDownloaded(create_qkview, FALSE)),
                        {}, <<>>)
  /\ UNCHANGED <<locVars, wfVars, transferVars, authVars, batchVars, create_qkview>>

\* the end of extract_all_info: the timestamp and logout()
LogoutStep ==
  /\ e_pc = "logout"
  /\ \E d \in DeleteOutcomes :
       /\ LogoutCall(d)
       /\ StepDone("logout", Upd(device_info, {"extraction_timestamp"}, "val"), {},
                   Reqs("logout", "DELETE", IF LogoutSends(token) THEN 1 ELSE 0))
  /\ UNCHANGED <<locVars, wfVars, transferVars, batchVars, create_qkview, qkview_success>>

\* ------------------------------------------------------------ batch
\* the keyword arguments of BigIPInfoExtractor.__init__
ConstructorKeywords == {"create_qkview", "qkview_timeout", "no_delete", "verbose"}

\* the keyword arguments process_devices_from_file constructs its extractor with
BatchKeywords == {"create_qkview", "qkview_timeout", "create_ucs", "ucs_timeout",
                  "no_delete", "verbose"}

\* process_devices_from_file up to the extractor of its first device: a
\* TypeError of the constructor is caught nowhere and ends the function
ProcessDevicesFromFile ==
  /\ b_pc = "start"
  /\ b_i' = 1
  /\ IF BatchKeywords \subseteq ConstructorKeywords
       THEN b_pc' = "extracting" /\ e_pc' = "connect"
       ELSE b_pc' = "TypeError" /\ e_pc' = e_pc
  /\ UNCHANGED <<locVars, wfVars, transferVars, authVars, devices, devices_info, create_qkview,
                 device_info, obtained, e_trace, e_reqs, qkview_success, e_ret>>

\* One extractor: built by the batch for the devices of its file, or built
\* directly with the constructor's own keywords.
ExtractInit ==
  /\ WorkflowOff
  /\ LocateOff
  /\ AuthStart
  /\ create_qkview \in BOOLEAN
  /\ ExtractorStart
  /\ devices_info = <<>>
  /\ \/ b_pc = "start" /\ devices \in 1..MaxDevices /\ b_i = 0 /\ e_pc = "off"
     \/ b_pc = "off" /\ devices = 0 /\ b_i = 0 /\ e_pc = "connect"

ExtractNext ==
  \/ ProcessDevicesFromFile
  \/ Connect \/ GetSystemInfo \/ GetDeviceSerial \/ GetRegistrationKey
  \/ GetSoftwareVersion \/ GetHotfixInfo \/ GetAdditionalInfo
  \/ GetSupportLifecycleInfo \/ QkviewStep \/ LogoutStep

SpecExtract == ExtractInit /\ [][ExtractNext]_vars

\* C11 (as claimed): when the deadline of the snapshot poller elapses with
\* no terminal state observed, one more status GET is issued, after the last
\* iteration of the loop, before the poller declares TIMEOUT.
C11_SnapshotFinalCheck ==
  (kind = "qkview" /\ pc = "polled" /\ pollEnd = "TIMEOUT")
    => statusGets = check_count + 1

\* C12: when the deadline of the backup poller elapses with no terminal
\* state observed, exactly one status GET is issued beyond those of the
\* loop; the poller returns its payload if and only if that check returned
\* state COMPLETED, and null otherwise.
C12_BackupFinalCheck ==
  (kind = "ucs" /\ pc = "polled" /\ pollEnd \in {"TIMEOUT", "COMPLETED_LATE"}) =>
    /\ statusGets = check_count + 1
    /\ ~(now < timeout)
    /\ (pollResult.state # "null") <=> (terminalSeen = "SUCCEEDED")
    /\ (pollResult.state # "null") => pollResult.state = "COMPLETED"
    /\ (lastGet \in {"err", "bad"}) => pollResult.state = "null"

\* C12 witness: the loop ran out its deadline and the final check returned
\* COMPLETED, which the poller returned.
C12_Witness ==
  /\ kind = "ucs" /\ pc = "polled" /\ pollEnd = "COMPLETED_LATE"
  /\ pollResult.state = "COMPLETED" /\ check_count = 3 /\ statusGets = 4

\* C13: in the backup workflow no status GET is issued unless the validate
\* PUT returned 202; when the PUT returns another status or raises,
\* submission reports failure and the workflow returns False without a
\* status GET; a 202 is accepted whatever its body.
C13_NoPollWithoutValidate ==
  kind = "ucs" =>
    /\ statusGets > 0 => validateSeen = "202"
    /\ pc \in {"poll", "filewait", "polled"} => validateSeen = "202"
    /\ (validateSeen \in {"other", "raised"}) =>
         /\ task_result = "none" /\ statusGets = 0
         /\ pc \in {"created", "done"}
         /\ pc = "done" => ret = "False"
    /\ (pc = "created" /\ validate_response.status = 202) => task_result = "task"

\* C13 witness: the validate PUT returned 500 and the workflow returned
\* False with no status GET issued.
C13_Witness ==
  /\ kind = "ucs" /\ pc = "done" /\ ret = "False"
  /\ validateSeen = "other" /\ statusGets = 0 /\ createPosts = 1

\* bodies that contain 'invalid' or 'name' in some spelling
NamingTexts == {"Invalid filename", "NAME too long", "INVALID request"}

\* the response is a 200/202 that carries a task id
CarriesId(r) == r.status \in {200, 202} /\ r.text = "{id}"

\* C14: submission sends at most two creation POSTs; the second is sent
\* exactly when the first response is neither 200 nor 202 and its body
\* contains 'invalid' or 'name' in any letter case; a task id is returned
\* only from a 200/202 response carrying one, and null in every other case.
C14_SubmissionRetry ==
  pc = "created" =>
    /\ createPosts \in {1, 2}
    /\ (createPosts = 2) <=>
         (response # Raised /\ response.status \notin {200, 202}
            /\ response.text \in NamingTexts)
    /\ (createPosts = 1) <=> (retry_response = Unsent)
    /\ task_result = "task" =>
         \/ CarriesId(response)
         \/ (createPosts = 2 /\ CarriesId(retry_response))
    /\ (~CarriesId(response) /\ ~CarriesId(retry_response)) => task_result = "none"
    /\ (kind = "qkview" /\ task_result = "none") =>
         (~CarriesId(response) /\ ~CarriesId(retry_response))

\* C14 witness: the first POST was rejected with an upper-case mention of
\* the name, the retry returned a task id.
C14_Witness ==
  /\ pc = "created" /\ kind = "qkview" /\ createPosts = 2
  /\ response = [status |-> 400, text |-> "NAME too long"]
  /\ CarriesId(retry_response) /\ task_result = "task"

\* the strategies called so far are the first ones of the list, in its
\* order, every one but the last having failed, and the download step
\* returns success, with the byte count of the last one, exactly when the
\* last one succeeded
StrategiesInOrder ==
  /\ Len(tried) <= 3
  /\ \A i \in 1..Len(tried) :
       /\ tried[i].method = download_methods[i]
       /\ i < Len(tried) => ~tried[i].ok
  /\ download_result <=> (Len(tried) > 0 /\ tried[Len(tried)].ok)
  /\ download_result => downloaded_file_size = tried[Len(tried)].bytes

AllThreeFailed == Len(tried) = 3 /\ \A i \in 1..3 : ~tried[i].ok

\* C15 (as claimed): the snapshot downloader tries direct-URI, then
\* move-then-fetch, then copy-then-fetch; a failure leads to the next one,
\* the first success ends the sequence and its byte count is returned; the
\* downloader returns failure if and only if all three strategies failed.
C15_StrategyFallback ==
  (kind = "qkview" /\ downloaded) =>
    /\ StrategiesInOrder
    /\ ~download_result <=> AllThreeFailed

\* C15 (amended): as claimed, for a payload that names the file; a payload
\* without a name makes the downloader return failure with no strategy
\* called.
C15_StrategyFallbackNamed ==
  (kind = "qkview" /\ downloaded) =>
    /\ StrategiesInOrder
    /\ info.name => (~download_result <=> AllThreeFailed)
    /\ ~info.name => (~download_result /\ tried = <<>>)

\* C15 witness: direct-URI failed, move-then-fetch succeeded and its byte
\* count was returned; copy-then-fetch was not called.
C15_Witness ==
  /\ kind = "qkview" /\ downloaded /\ download_result
  /\ Len(tried) = 2 /\ ~tried[1].ok /\ tried[2].ok
  /\ tried[2].method = "file_transfer"
  /\ downloaded_file_size = QK_CLEANUP_MIN + 1 /\ cpCmds = 0

\* C16: in the direct-URI chunked transfer, when every response is a 200
\* carrying exactly the requested range clipped to the file, for every
\* total size S >= 1, multiple of the chunk size or not: the requested
\* ranges start at 0, are contiguous, non-overlapping and at most one chunk
\* long; the transfer ends exactly on the request that reaches byte S-1;
\* and the bytes written equal S (for S = 1 nothing is written, which is
\* within the 1KB tolerance).
C16_ChunkedWritesAll ==
  (fn = "qk_chunked" /\ faithful /\ Len(reqs) > 0) =>
    LET n == Len(reqs)
        last == remote_total - 1
    IN  /\ reqs[1] = <<0, chunk_size - 1>>
        /\ \A i \in 1..n :
             /\ reqs[i][1] <= reqs[i][2]
             /\ reqs[i][2] - reqs[i][1] + 1 <= chunk_size
             /\ i > 1 => (reqs[i][1] = reqs[i-1][2] + 1 /\ reqs[i][2] <= last)
             /\ i < n => reqs[i][2] < last
        /\ t_pc = "request" => (reqs[n][2] < last /\ written = reqs[n][2] + 1)
        /\ t_pc = "done" =>
             /\ Min(reqs[n][2], last) = last /\ end = last
             /\ verified
             /\ Abs(final_size - remote_total) <= SizeTolerance
             /\ final_size = (IF remote_total = 1 THEN 0 ELSE remote_total)

\* C16 witness: a file of two chunks and one byte was fetched with three
\* requests and written in full.
C16_Witness ==
  /\ fn = "qk_chunked" /\ faithful /\ t_pc = "done"
  /\ remote_total = 2 * chunk_size + 1 /\ Len(reqs) = 3
  /\ reqs[3] = <<2 * chunk_size, 2 * chunk_size>>
  /\ final_size = remote_total

\* C17 (as claimed): in the direct-URI chunked transfer a 206 response is
\* handled as a 200: the total is read from it when the size is not known,
\* and the requested range advances to the next chunk or the transfer ends.
C17_PartialContentAsOk ==
  (fn = "qk_chunked" /\ last_status = "206") =>
    /\ size = remote_total - 1
    /\ t_pc = "done" \/ start = prev_start + chunk_size

\* the total size was known and the bytes written were within 1KB of it
\* when the latest request was sent
NearEndWhenSent ==
  size > 0 /\ Abs(prev_written - (size + 1)) <= SizeTolerance

\* C18: in the direct-URI chunked transfer a 400 ends the transfer as
\* complete only if the total size is known and the bytes written are
\* within 1KB of it; any other 400, and any status other than 200, 206 or
\* 400, ends the strategy with failure.
C18_BadRequestEndsTransfer ==
  (fn = "qk_chunked" /\ last_status \in {"400", "500", "raise", "200_bad_range"}) =>
    /\ t_pc = "done"
    /\ written = prev_written
    /\ (last_status = "400" /\ verified) => NearEndWhenSent
    /\ (last_status = "400" /\ ~NearEndWhenSent) =>
         (~verified /\ t_success = "False" /\ t_size = 0)
    /\ last_status # "400" => (~verified /\ t_success = "False" /\ t_size = 0)

\* C18 witness: a 400 answered the request for the last byte of a file of
\* one chunk and one byte, and the transfer was taken as complete.
C18_Witness ==
  /\ fn = "qk_chunked" /\ last_status = "400" /\ t_pc = "done"
  /\ remote_total = chunk_size + 1 /\ final_size = chunk_size
  /\ verified /\ t_success = "True" /\ t_size = chunk_size

\* C19 (as claimed): every transfer function applies the same final size
\* rule against the size it learned from the device: a difference of at
\* most 1KB is accepted, at least 95% of the expected size is accepted as a
\* last resort, anything else is a failure.
C19_SameSizeRule ==
  (t_pc = "done" /\ verified /\ total_size > 0
     /\ (final_size > 0 => head \notin {"<HTML>", "Error"})) =>
    ((t_success = "True") <=>
       \/ final_size - total_size \in (0 - SizeTolerance)..SizeTolerance
       \/ 100 * final_size >= 95 * total_size)

\* C20 (as claimed): every transfer function returns failure when the first
\* 100 bytes of the saved file contain '<html>' or 'error' in any letter
\* case, whatever the size of the file.
C20_SniffWhateverSize ==
  (t_pc = "done" /\ t_success = "True" /\ final_size > 0) =>
    head \notin {"<HTML>", "Error"}

\* what a step of copy-then-fetch may issue: no move, no move back, no
\* removal of the original; the removal of the staged copy in its last step
CopyStepCommands ==
  pc \in {"bc_copy", "bc_fetch", "bc_finish"} =>
    (/\ UNCHANGED <<mvCmds, mvBackCmds, rmOrigCmds, forceRmCmds, ftStagedRm>>
     /\ pc = "bc_finish" => stagedRmCmds' = stagedRmCmds + 1
     /\ pc # "bc_finish" => stagedRmCmds' = stagedRmCmds)

\* C21: copy-then-fetch never issues a command that moves or removes the
\* original remote file, and whenever its copy command was accepted it
\* issues the removal of the staged copy after the download attempt,
\* whether the download succeeded or failed.
C21_CopyLeavesOriginal ==
  /\ [][CopyStepCommands]_vars
  /\ [](/\ (bc_copied /\ downloaded) => stagedRmCmds - ftStagedRm = 1
        /\ (~bc_copied \/ pc \in {"bc_fetch", "bc_finish"}) => stagedRmCmds - ftStagedRm = 0
        /\ pc \in {"bc_fetch", "bc_finish"} => bc_copied)

\* C21 witness: the copy was accepted, the download of the staged copy
\* failed, and the staged copy was removed; the workflow was left with a
\* failed download.
C21_Witness ==
  /\ bc_copied /\ downloaded /\ ~download_result
  /\ Len(tried) = 3 /\ stagedRmCmds - ftStagedRm = 1
  /\ downloadReqs > 0 /\ rmOrigCmds = 0

\* C22: when the snapshot download succeeded through the direct-URI
\* strategy with more than 5MB and no-delete unset, exactly one removal of
\* the remote file and exactly one DELETE of the task record are issued; a
\* failure of either (error status or exception) does not prevent the other
\* and does not change the workflow's success.  For both kinds a cleanup
\* failure never reaches the caller.
C22_CleanupFailuresSwallowed ==
  /\ (kind = "qkview" /\ pc = "done" /\ download_result /\ ~no_delete
        /\ Len(tried) = 1 /\ downloaded_file_size > 5 * 1024 * 1024) =>
       /\ rmOrigCmds = 1 /\ taskDeletes = 1
       /\ fileCleanup \in CleanupOutcomes /\ taskCleanup \in CleanupOutcomes
       /\ ret = "True"
  /\ fileCleanup # "none" =>
       /\ pc \in {"cleanup_task", "done"}
       /\ pc = "done" => (taskDeletes = 1 /\ taskCleanup # "none" /\ ret = "True")
  /\ taskCleanup # "none" => (pc = "done" /\ ret = "True" /\ fileCleanup # "none")

\* C22 witness: the removal of the snapshot file raised, the DELETE of the
\* task record returned an error status, each was issued once and the
\* workflow returned True.
C22_Witness ==
  /\ kind = "qkview" /\ pc = "done" /\ ret = "True"
  /\ Len(tried) = 1 /\ tried[1].ok /\ downloaded_file_size > 5 * 1024 * 1024
  /\ fileCleanup = "raise" /\ taskCleanup = "http_error"
  /\ rmOrigCmds = 1 /\ taskDeletes = 1

\* C23 (as claimed): in the cleanup of the remote backup file the existence
\* of the file is re-checked after the remove command; the forced
\* `rm -rf ...; sync` is issued at most once, and only after a re-check;
\* the DELETE of the task record is attempted afterwards in every case.
C23_RecheckAfterRemove ==
  (kind = "ucs" /\ fileCleanup # "none") =>
    /\ rmOrigCmds - forceRmCmds = 1 => verifyCmds >= 1
    /\ forceRmCmds <= 1
    /\ forceRmCmds = 1 => verifyCmds >= 1
    /\ pc = "done" => taskDeletes = 1

\* C24: after get_auth_token returned False (non-200, 200 without a usable
\* token, or an exception), is_authenticated() is false and the session
\* carries no auth-token header, whatever the session held before the call.
C24_LoginFailsClosed ==
  (a_call = "get_auth_token" /\ a_ret = "False")
    => (~is_authenticated /\ auth_header = "absent")

\* C25: after logout() returned, no token is held and the auth-token header
\* is gone, also when the revoke DELETE failed or raised; logout never raises,
\* and sends nothing when no token is held.
C25_LogoutAlwaysClears ==
  a_call = "logout"
    => /\ a_ret = "returned"
       /\ ~is_authenticated
       /\ auth_header = "absent"

\* the batch function was ended by an exception nothing caught
BatchAborted == b_pc = "TypeError"

TracePositions(step) == {i \in 1..Len(e_trace) : e_trace[i] = step}

\* C27: in an extraction whose authentication succeeded, logout is invoked
\* exactly once, after every fact-gathering step and after the snapshot
\* workflow, whatever those returned; no request follows those of logout.
C27_LogoutOnceAtTheEnd ==
  /\ Cardinality(TracePositions("logout")) <= 1
  /\ (e_pc = "done" /\ e_ret = "True") =>
        /\ TracePositions("logout") = {Len(e_trace)}
        /\ \A st \in FactSteps \cup {"qkview"} : TracePositions(st) # {}
  /\ \A i \in 1..Len(e_reqs) : \A j \in 1..Len(e_reqs) :
        (e_reqs[i].step = "logout" /\ i < j) => e_reqs[j].step = "logout"

\* an extraction with a failed snapshot and a fact that was not available has
\* logged out
C27_Witness ==
  /\ e_pc = "done" /\ e_ret = "True"
  /\ create_qkview /\ qkview_success = "False"
  /\ device_info["serial_number"] = "N/A"
  /\ a_call = "logout"
  /\ e_reqs[Len(e_reqs)] = [step |-> "logout", method |-> "DELETE"]

\* the session's own requests: login, token-extend, token-revoke
SessionRequests ==
  {[step |-> "connect", method |-> "POST"], [step |-> "connect", method |-> "PATCH"],
   [step |-> "logout", method |-> "DELETE"]}

\* C28: the fact-gathering steps issue GET requests only, and without
\* snapshot creation the only non-GET requests of an extraction are the
\* session's login, token-extend and token-revoke.
C28_FactQueriesOnlyRead ==
  \A i \in 1..Len(e_reqs) :
    /\ e_reqs[i].step \in FactSteps => e_reqs[i].method = "GET"
    /\ (~create_qkview /\ e_reqs[i].method # "GET") => e_reqs[i] \in SessionRequests

\* an extraction without snapshot creation has ended, its queries, the
\* token-extend and the token-revoke issued
C28_Witness ==
  /\ e_pc = "done" /\ e_ret = "True" /\ ~create_qkview
  /\ \E i \in 1..Len(e_reqs) : e_reqs[i].step \in FactSteps
  /\ \A r \in SessionRequests : \E i \in 1..Len(e_reqs) : e_reqs[i] = r

\* C29: every fact-gathering step catches its own errors and writes 'N/A'
\* to its own field only: a failing step stops no later step, and no value a
\* query of this extraction obtained is replaced by 'N/A'.
C29_StepFailuresStayLocal ==
  /\ (e_pc = "done" /\ e_ret = "True") => \A st \in FactSteps : TracePositions(st) # {}
  /\ \A f \in obtained : device_info[f] # "N/A"

\* C30: after an authenticated extraction qkview_downloaded is 'Not
\* requested' exactly when snapshot creation is disabled, 'Yes' exactly when
\* it is enabled and the workflow returned success, 'Failed' otherwise.
C30_QkviewDownloadedField ==
  (e_pc = "done" /\ e_ret = "True") =>
    /\ device_info["qkview_downloaded"] \in {"Not requested", "Yes", "Failed"}
    /\ device_info["qkview_downloaded"] = "Not requested" <=> ~create_qkview
    /\ device_info["qkview_downloaded"] = "Yes"
         <=> (create_qkview /\ qkview_success = "True")
    /\ device_info["qkview_downloaded"] = "Failed"
         <=> (create_qkview /\ qkview_success # "True")

\* the workflow of an extraction returned failure
C30_Witness ==
  /\ e_pc = "done" /\ e_ret = "True"
  /\ create_qkview /\ qkview_success = "False"
  /\ device_info["qkview_downloaded"] = "Failed"

\* C31: the batch yields at most one record per device, in input order (one
\* for each device that authenticated, none for the others), and a failing
\* device never stops the devices after it: the batch ends only after the
\* last device of its file.
C31_OneRecordPerDevice ==
  /\ \A i \in 1..Len(devices_info) :
        /\ devices_info[i] \in 1..b_i
        /\ \A j \in 1..Len(devices_info) : i < j => devices_info[i] < devices_info[j]
  /\ b_pc \in {"TypeError", "returned"} => b_i = devices

\* the keys of device_info that hold a value
WrittenFields == {f \in Fields : device_info[f] # "unset"}

\* C32: every authenticated extraction has set ucs_downloaded (to the outcome
\* of the backup workflow it ran between the fact-gathering steps and logout,
\* when backup creation was requested).
C32_BackupThroughExtractor ==
  (e_pc = "done" /\ e_ret = "True") => "ucs_downloaded" \in WrittenFields

\* C39: after any sequence of get_auth_token and logout calls the session
\* carries the auth-token header exactly when a token is held, and the
\* header then equals the held token.
C39_HeaderMatchesToken ==
  /\ is_authenticated <=> auth_header # "absent"
  /\ auth_header # "absent" => auth_header = token

\* an iteration of the chunked loop ends the transfer or moves the
\* requested range forward
ChunkStepAdvances ==
  (fn = "qk_chunked" /\ t_pc = "request" /\ Len(reqs') > Len(reqs))
    => (t_pc' = "done" \/ start' > start)

\* C36: the direct-URI chunked loop terminates for every sequence of
\* responses: each iteration ends the transfer or strictly advances the
\* requested range, so at most ceil(S/C)+1 range requests are issued for a
\* file of S bytes.
C36_ChunkLoopTerminates ==
  /\ [][ChunkStepAdvances]_vars
  /\ [](fn = "qk_chunked" =>
          Len(reqs) <= (remote_total + chunk_size - 1) \div chunk_size + 1)

\* the loop condition of a poller finds the deadline run out while no status
\* GET has returned a terminal state: the result is null, a TIMEOUT
PollerTimeoutStep ==
  (pc = "poll" /\ ~(now < timeout) /\ pc' = "polled" /\ terminalSeen' = "none")
    => (pollResult' = NullInfo /\ pollEnd' = "TIMEOUT")

\* C37: both pollers terminate: every iteration that does not return takes
\* at least one poll interval, so the status GETs number at most
\* deadline/15 + 1 (one more for the final check of the backup kind), the
\* poller always returns, and a deadline that runs out on a task without a
\* terminal state gives a null TIMEOUT result.
C37_PollersTerminate ==
  /\ [](pc = "poll" => now >= check_interval * check_count)
  /\ [](statusGets <= timeout \div check_interval + 1 + (IF kind = "ucs" THEN 1 ELSE 0))
  /\ [][PollerTimeoutStep]_vars
  /\ [](pc \in {"poll", "filewait"} => <>(pc = "polled"))

\* a backup task that was never terminal ran into its deadline after as
\* many status GETs as the deadline allows, the final check included
C37_Witness ==
  /\ kind = "ucs" /\ pc = "polled" /\ pollEnd = "TIMEOUT" /\ terminalSeen = "none"
  /\ pollResult = NullInfo
  /\ statusGets = timeout \div check_interval + 1

\* ------------------------------------------------------------ file locator
\* The probes of a locator in the order it makes them: search_locations and
\* search_patterns of _find_qkview_file, exact_location and the `ls -lat`
\* listing of _find_ucs_file.  glob "exact": <dir>/<filename>; "suffix":
\* <dir>/*<filename[-20:]>*; "ext": <dir>/*.<extension>.
Probes(k) ==
  IF k = "qkview"
    THEN << [dir |-> "/var/tmp", glob |-> "exact"],
            [dir |-> "/shared/support", glob |-> "exact"],
            [dir |-> "/var/core", glob |-> "exact"],
            [dir |-> "/shared/core", glob |-> "exact"],
            [dir |-> "/var/log", glob |-> "exact"],
            [dir |-> "/shared/images", glob |-> "exact"],
            [dir |-> "/var/tmp", glob |-> "suffix"],
            [dir |-> "/var/tmp", glob |-> "ext"],
            [dir |-> "/shared/support", glob |-> "ext"],
            [dir |-> "/var/core", glob |-> "ext"] >>
    ELSE << [dir |-> "/var/local/ucs", glob |-> "exact"],
            [dir |-> "/var/local/ucs", glob |-> "ext"] >>

\* The names a file with the extension can have: "task": the filename;
\* "similar": a longer name that contains the filename; "other": any other.
\* `filename in line` and `filename.replace('.ucs', '') in found_filename`.
NameMatches(n) == n \in {"task", "similar"}

\* the probes sent as a removing command
ProbeProgram_Rm == "rm"

\* `ls -la ...` and `ls -lat ...`: every probe is a listing
ProbeProgram == "ls"

\* What the device's shell does with a command on the files rem: the lines
\* it prints (one per file the argument expands to, in the order of rem) and
\* the files it leaves.
RunCommand(c, rem) ==
  LET hit(f) == /\ f.dir = c.arg.dir
                /\ \/ c.arg.glob = "ext"
                   \/ c.arg.glob = "suffix" /\ NameMatches(f.name)
                   \/ c.arg.glob = "exact" /\ f.name = "task"
      miss(f) == ~hit(f)
  IN  IF c.prog = "ls" THEN [out |-> SelectSeq(rem, hit), rem |-> rem]
                       ELSE [out |-> <<>>, rem |-> SelectSeq(rem, miss)]

\* What a probe returns on the lines out of its listing; NoPath("None")
\* when the locator goes on.  An exact probe returns its location; a
\* snapshot listing returns parts[-1] of the first line that contains the
\* filename; the backup listing returns "/var/local/ucs/" + parts[-1] of the
\* first such line, else of lines[0].  parts[-1] is the path ls printed.
Found(k, probe, out) ==
  LET named == SelectSeq(out, LAMBDA f : NameMatches(f.name))
      pick == IF named # <<>> THEN named[1] ELSE out[1]
  IN  IF out = <<>> THEN NoPath("None")
      ELSE IF probe.glob = "exact" THEN [dir |-> probe.dir, name |-> "task"]
      ELSE IF k = "qkview"
        THEN (IF named # <<>> THEN named[1] ELSE NoPath("None"))
        ELSE [dir |-> "/var/local/ucs" \o "/" \o pick.dir, name |-> pick.name]

\* One probe of _find_qkview_file / _find_ucs_file: the POST to the bash
\* endpoint, which answers 200 ("ok"), another status or raises; a raising POST ends the search with None, a non-200 answer is
\* skipped, a hit is returned, and after the last miss None is returned.
LocateStep ==
  /\ l_pc = "probe"
  /\ \E answer \in {"ok", "non200", "raise"} :
       LET probe == Probes(l_kind)[l_i]
           c == [prog |-> ProbeProgram, arg |-> probe]
           run == RunCommand(c, l_remote)
           hit == IF answer = "ok" THEN Found(l_kind, probe, run.out) ELSE NoPath("None")
       IN  /\ l_cmds' = Append(l_cmds, c)
           /\ l_remote' = run.rem
           /\ l_answered' = (l_answered /\ answer = "ok")
           /\ IF answer = "raise" \/ hit # NoPath("None") \/ l_i = Len(Probes(l_kind))
                THEN l_result' = hit /\ l_pc' = "done" /\ l_i' = l_i
                ELSE l_i' = l_i + 1 /\ UNCHANGED <<l_result, l_pc>>
  /\ UNCHANGED <<wfVars, transferVars, extractVars,
                 l_kind, l_call, l_first, l_read, l_saved, l_removed>>

\* the locator is called once more with the same filename
LocateAgain ==
  /\ l_pc = "done" /\ l_call = 1
  /\ l_first' = <<l_result, l_answered>> /\ l_call' = 2
  /\ l_pc' = "probe" /\ l_i' = 1 /\ l_result' = NoPath("unset") /\ l_answered' = TRUE
  /\ UNCHANGED <<wfVars, transferVars, extractVars,
                 l_kind, l_remote, l_cmds, l_read, l_saved, l_removed>>

\* Steps 3 and 4 of create_and_download_ucs on the located path.
\* _download_ucs gives up when the locator returned None, when the
\* readability test answers NOT_READABLE (a path with no file) or a POST
\* raises; a non-200 answer to the test is passed over.  The chunked read of
\* actual_path is saved under the task's filename; a path with no file
\* reads as an empty file and still succeeds.  With more than 1MB saved and
\* without --no-delete, /var/local/ucs/<filename> is removed.
DownloadLocated ==
  /\ l_pc = "done" /\ l_kind = "ucs"
  /\ \E verify \in {"ok", "non200", "raise"}, read \in {"ok", "non200", "raise"},
        nodelete \in BOOLEAN :
       LET there == SelectSeq(l_remote, LAMBDA f : f = l_result)
           ucs_path == [dir |-> "/var/local/ucs", glob |-> "exact"]
           proceeds == /\ l_result # NoPath("None")
                       /\ verify = "non200" \/ (verify = "ok" /\ there # <<>>)
           success == proceeds /\ read = "ok"
       IN  /\ l_read' = (IF proceeds THEN l_result ELSE l_read)
           /\ l_saved' = (IF ~success THEN l_saved
                          ELSE IF there # <<>> THEN there[1] ELSE NoPath("empty"))
           /\ IF success /\ there # <<>> /\ ~nodelete
                THEN /\ l_removed' = [dir |-> ucs_path.dir, name |-> "task"]
                     /\ l_remote' = RunCommand([prog |-> "rm", arg |-> ucs_path], l_remote).rem
                     /\ l_cmds' = Append(l_cmds, [prog |-> "rm", arg |-> ucs_path])
                ELSE UNCHANGED <<l_removed, l_remote, l_cmds>>
  /\ l_pc' = "end"
  /\ UNCHANGED <<wfVars, transferVars, extractVars,
                 l_kind, l_answered, l_i, l_call, l_result, l_first>>

\* A locator of either kind is called on a device that holds up to MaxFiles
\* files with the extension in the directories the locator looks into.
LocateInit ==
  /\ WorkflowOff /\ ExtractOff
  /\ l_kind \in Kinds
  /\ l_answered = TRUE
  /\ LET dirs == {Probes(l_kind)[i].dir : i \in 1..Len(Probes(l_kind))}
         files == [dir : dirs, name : {"task", "similar", "other"}]
     IN  l_remote \in {q \in UNION {[1..n -> files] : n \in 0..MaxFiles} :
                         \A i, j \in 1..Len(q) : i # j => q[i] # q[j]}
  /\ l_pc = "probe" /\ l_i = 1 /\ l_call = 1 /\ l_cmds = <<>>
  /\ l_result = NoPath("unset") /\ l_first = <<NoPath("unset"), TRUE>>
  /\ l_read = NoPath("unset") /\ l_saved = NoPath("unset") /\ l_removed = NoPath("unset")

SpecLocate == LocateInit /\ [][LocateStep \/ LocateAgain \/ DownloadLocated]_vars

\* the files a listing probe of the locator shows, most recent first
ListedFiles ==
  SelectSeq(l_remote, LAMBDA f : \E i \in 1..Len(Probes(l_kind)) :
                                    Probes(l_kind)[i] = [dir |-> f.dir, glob |-> "ext"])

\* the commands of the first call: a listing is sent only after every
\* exact-path probe was sent
ListingsAfterExactProbes ==
  \A i \in 1..Len(l_cmds) :
    l_cmds[i].arg.glob # "exact" =>
      \A j \in 1..Len(Probes(l_kind)) :
        Probes(l_kind)[j].glob = "exact" => (j < i /\ l_cmds[j].arg = Probes(l_kind)[j])

\* C33: when the device answers every probe, no file on it bears the expected name and
\* a listing shows files with the extension, the locator returns the path
\* of the most recent file of a listed directory, not None; and listings
\* are sent only after every exact-path probe.
C33_FallsBackToMostRecent ==
  /\ (l_pc = "done" /\ l_answered /\ ListedFiles # <<>>
        /\ \A i \in 1..Len(l_remote) : ~NameMatches(l_remote[i].name))
       => \E i \in 1..Len(ListedFiles) :
            /\ l_result = ListedFiles[i]
            /\ \A j \in 1..(i - 1) : ListedFiles[j].dir # l_result.dir
  /\ (l_call = 1 /\ l_pc \in {"probe", "done"}) => ListingsAfterExactProbes

C38_OwnFileDownloadedAndRemoved ==
  /\ (l_pc = "end" /\ l_saved # NoPath("unset"))
       => (l_read = [dir |-> "/var/local/ucs", name |-> "task"] /\ l_saved = l_read)
  /\ (l_pc = "end" /\ l_removed # NoPath("unset")) => l_removed = l_read

\* C35: in the snapshot workflow, from the moment the download starts on
\* the finished artifact and as long as no download of it has succeeded,
\* the artifact is still on the device, at its source path or in the
\* staging directory; so it is when every strategy failed and the workflow
\* returned, whether or not the locator had found it.
C35_RemoteCopyKept ==
  (kind = "qkview" /\ actual_path # "unset" /\ ~st_success /\ ~download_result)
    => (source_there \/ staged_there)

Next ==
  \/ QkCreateTask
  \/ QkAfterCreate
  \/ UcsCreateTask
  \/ UcsAfterCreate
  \/ QkPollCheck
  \/ QkPollTimeout
  \/ QkAfterWait
  \/ UcsPollCheck
  \/ FileWaitCheck
  \/ FileWaitEnd
  \/ UcsPollTimeout
  \/ UcsAfterWait
  \/ QkDownloadStart
  \/ QkDownloadViaUri
  \/ FtMove
  \/ FtFetch
  \/ FtFinish
  \/ BcCopy
  \/ BcFetch
  \/ BcFinish
  \/ UcsDownload
  \/ AfterDownload
  \/ QkCleanupFile
  \/ UcsCleanupFile
  \/ CleanupTask

Spec == Init /\ [][Next]_vars

\* The workflow keeps running: no sleep and no request lasts forever.
SpecFair == Spec /\ WF_vars(Next)
====
